---- MODULE Spec2Model ----
(***************************************************************************)
(* A model of the streaming SSTV decoder (StreamingDecoder) and of the     *)
(* shared decoder-core classes it drives (SyncHistoryTracker, VISDecoder,  *)
(* ImageChannelBuffer).                                                    *)
(*                                                                         *)
(* Audio is not modelled sample by sample.  What the signal processing     *)
(* reads out of the audio is an input of the Process action: the length of *)
(* the chunk, the sync pulse the demodulator reports for the chunk (if     *)
(* any), and, for every 9 ms / 20 ms pulse, the mode that the VIS decoder  *)
(* will read behind that pulse (if any).  Everything the controller does   *)
(* with these inputs is translated from the source.                        *)
(*                                                                         *)
(* Times scale with sampleRate exactly as in the source (samples =         *)
(* round/floor(seconds * sampleRate)); the model runs at a very low sample *)
(* rate so that a scan line is a handful of samples.  Image heights and    *)
(* the 128 extra lines are divided by LineScale.                           *)
(***************************************************************************)
EXTENDS Integers, Sequences, FiniteSets, TLC

\* ---------------------------------------------------------------------
\* Bounds of the model
\* ---------------------------------------------------------------------
SampleRate == 10       \* options.sampleRate (samples per second)
FastSampleRate == 500  \* a sample rate at which 1 ms is a sample
MaxDriftLines == 7     \* scan lines given to a decoder running at FastSampleRate
MaxChromaLines == 3    \* lines of a 2-channel YCrCb image given to the RGB conversions
DarkSample == 16       \* the low value of a sample of such an image
BrightSample == 240    \* the high value of a sample of such an image
PixelsPerLine == 3     \* mode.width of the line given to the pixel decoder
PixelSamples == 4      \* pixelTimeSamples: (scanTime / width) * sampleRate
HalfWindowSamples == 3 \* centerWindowSamples: half the analysis window of a pixel
MaxSyncIndex == 7      \* largest syncPulseIndex given to the pixel decoder
MaxBufferLength == 56  \* largest bufferLength given to the pixel decoder
MaxAudioLength == 24   \* longest recording (samples) given to the batch decoder
MaxSyncDrift == 1      \* samples by which a sync is found after its expected place
MaxHannSize == 23      \* largest window size asked of the Hann window cache
MaxLineFed == 16       \* samples given line by line between two reset() calls
MaxPulseFed == 12      \* samples given one by one, each bringing at most one pulse
MaxBufferCalls == 3    \* allocate() and reset() calls made on an ImageChannelBuffer
PixelValue == 200      \* the value written by setPixel
MaxWindowLength == 5   \* largest length of a SimpleMovingSum
MaxAdds == 6           \* add() calls made on a SimpleMovingSum
StreamLength == 16     \* samples of a stream given to two decoders in different chunks
LineScale == 64        \* image heights are divided by this
FineLineScale == 24    \* a finer division: a line of the model is 10% of Robot 72's 240
ChunkLen == 12         \* samples.length of every chunk given to process()
MaxPulseBack == 1      \* how far before the chunk a reported pulse may start
MaxSamples == 24       \* samples given to process() between two reset() calls
FirstPulseAt == 2      \* where the sync pulses of a chunk that holds several start
SecondPulseAt == 7
MaxPulseCounter == 1300  \* the longest run of sync-tone samples given to the demodulator
\* the maxBufferSeconds option, in tenths of a second: a buffer that holds
\* all MaxSamples samples, one that fills up, and one of a single sample
BigBufferTenths == 24
SmallBufferTenths == 20
TinyBufferTenths == 1

\* ---------------------------------------------------------------------
\* Program constants
\* ---------------------------------------------------------------------
ExtraLines == 128          \* ImageChannelBuffer.allocate: mode.height + 128
MaxVisCandidates == 10     \* checkVisCandidates: while (length > 10) shift()
SyncPulseCount == 5        \* SyncHistoryTracker(syncPulseCount = 5)
ScanLineCount == 4         \* SyncHistoryTracker(scanLineCount = 4)

NoMode == 0 - 1            \* currentMode === null / forceMode === undefined
NoSync == [width |-> 0, offset |-> 0, vis |-> NoMode]

\* Math.round(num / den) and Math.floor(num / den) for den > 0
RoundDiv(num, den) == (2 * num + den) \div (2 * den)
FloorDiv(num, den) == num \div den

Abs(x) == IF x < 0 THEN 0 - x ELSE x
Min(a, b) == IF a < b THEN a ELSE b

\* ---------------------------------------------------------------------
\* Mode registry (the modes the controller model is run with)
\* syncUs, lineUs: syncPulse and lineTime in microseconds; pd: isPDMode
\* ---------------------------------------------------------------------
RegistryOrder == <<44, 60, 12, 93>>

ModeIds == {RegistryOrder[i] : i \in 1..Len(RegistryOrder)}

ModeTable ==
    [id \in ModeIds |->
        CASE id = 44 -> [name |-> "Martin M1",  syncUs |-> 4862,  lineUs |-> 446446, height |-> 256, pd |-> FALSE]
          [] id = 60 -> [name |-> "Scottie S1", syncUs |-> 9000,  lineUs |-> 428220, height |-> 256, pd |-> FALSE]
          [] id = 12 -> [name |-> "Robot 72",   syncUs |-> 9000,  lineUs |-> 300000, height |-> 240, pd |-> FALSE]
          [] id = 93 -> [name |-> "PD 50",      syncUs |-> 20000, lineUs |-> 388160, height |-> 256, pd |-> TRUE]]

getModeByVIS(code) == IF code \in ModeIds THEN code ELSE NoMode

\* the number of image lines that one line of the model stands for (fixed
\* in the initial state: LineScale or FineLineScale)
VARIABLE lineScale

\* options.sampleRate (fixed at construction: SampleRate or FastSampleRate)
VARIABLE sampleRate

Height(m) == ModeTable[m].height \div lineScale
LineSamples(m) == FloorDiv(ModeTable[m].lineUs * sampleRate, 1000000)
isPDMode(m) == ModeTable[m].pd

\* The sync-width bucket of a mode, 0 when it falls in none
SyncBucket(m) ==
    LET us == ModeTable[m].syncUs
    IN  IF Abs(us - 5000) < 1000 THEN 5
        ELSE IF Abs(us - 9000) < 1000 THEN 9
        ELSE IF Abs(us - 20000) < 2000 THEN 20
        ELSE 0

Widths == {5, 9, 20}

RECURSIVE FilterBucket(_, _)
FilterBucket(order, w) ==
    IF order = <<>> THEN <<>>
    ELSE IF SyncBucket(Head(order)) = w
         THEN <<Head(order)>> \o FilterBucket(Tail(order), w)
         ELSE FilterBucket(Tail(order), w)

categorizeModesBySyncPulse == [w \in Widths |-> FilterBucket(RegistryOrder, w)]

\* ---------------------------------------------------------------------
\* Timing constants derived from the sample rate
\* ---------------------------------------------------------------------
scanLineMinSamples == RoundDiv(50 * sampleRate, 1000)
scanLineToleranceSamples == RoundDiv(1 * sampleRate, 1000)
visCodeBitSamples == RoundDiv(30 * sampleRate, 1000)
leaderToneSamples == RoundDiv(300 * sampleRate, 1000)
leaderToneToleranceSamples == RoundDiv(60 * sampleRate, 1000)
visCodeSamples == RoundDiv(300 * sampleRate, 1000)
breakSamples == FloorDiv(10 * sampleRate, 1000)

getRequiredSamples == leaderToneSamples + leaderToneToleranceSamples + visCodeSamples

calculateImageStartIndex(breakIndex) ==
    breakIndex + breakSamples + FloorDiv(300 * sampleRate, 1000) + RoundDiv(300 * sampleRate, 1000)

\* ---------------------------------------------------------------------
\* State
\* ---------------------------------------------------------------------
VARIABLES
    \* options (fixed at construction)
    maxBufferSamples, forcedMode, allowVisInterrupt,
    \* StreamingDecoder fields
    bufferWritePos, state, currentMode, lastSyncPulseIndex, currentScanLineSamples,
    cancelled, imageCompleted, leaderBreakIndex, visCandidates,
    expectedScanLineSamples, cumulativeDrift, syncPositions,
    \* the three SyncHistoryTrackers, by pulse width
    sync,
    \* ImageChannelBuffer: [mode, linesDecoded, allocatedHeight, planeLines]
    imageBuffer,
    \* what the caller and the observers see
    events,        \* events delivered to observers during the last call, in order
    imageLog,      \* what was seen of the image in the channel buffer: the modeDetected,
                   \* line and imageComplete events delivered since the buffer was
                   \* allocated, and a "flushed" entry where flush() returned the image
    lastCall,      \* the last API call: [op, returned, lines, modeBefore, linesBefore]
    \* bookkeeping of the buffer
    totalSamples,  \* samples given to process() since construction or reset()
    oobWrite,      \* a sample was stored at an index >= maxBufferSamples
    lastShift,     \* the last effective shiftBuffer of the last call: amount, indices before and after
    chunkPulses,   \* the valid sync pulses that the audio of the last chunk contained,
                   \* in order, where the chunk was given as audio (ProcessChunk)
    \* VIS decoding on its own
    visWord,       \* the 8 bits read behind a start bit: 7 data bits (LSB first) and the parity bit
    visModes,      \* the VIS code each decode path returned for visWord (NoMode: null)
    \* a function of the program applied on its own
    probe,         \* [fn, args, out]: the function, its arguments and what it returned
    \* the module-level Hann window cache of fft-helper
    hannWindowCache,  \* the sizes that have a cached window (the keys of the Map)
    hannWindowLRU,    \* the sizes in order of use, oldest first
    \* where the decoded lines came from
    shiftedOut,    \* samples shifted out of the sample buffer since construction or reset()
    lineStarts     \* per decodeLineAt call that decoded a line of the image in the
                   \* channel buffer: the place in the stream (samples since
                   \* construction or reset()) of the sync position it was given

options == <<maxBufferSamples, forcedMode, allowVisInterrupt, lineScale, sampleRate>>

vars == <<maxBufferSamples, forcedMode, allowVisInterrupt, lineScale, sampleRate,
          bufferWritePos, state, currentMode, lastSyncPulseIndex, currentScanLineSamples,
          cancelled, imageCompleted, leaderBreakIndex, visCandidates,
          expectedScanLineSamples, cumulativeDrift, syncPositions, sync, imageBuffer,
          events, imageLog, lastCall, totalSamples, oobWrite, lastShift,
          chunkPulses, visWord, visModes, probe, hannWindowCache, hannWindowLRU,
          shiftedOut, lineStarts>>

decoderVars == <<maxBufferSamples, forcedMode, allowVisInterrupt, lineScale, sampleRate,
                 bufferWritePos, state, currentMode, lastSyncPulseIndex,
                 currentScanLineSamples, cancelled, imageCompleted, leaderBreakIndex,
                 visCandidates, expectedScanLineSamples, cumulativeDrift, syncPositions,
                 sync, imageBuffer, events, imageLog, lastCall, totalSamples, oobWrite,
                 lastShift, chunkPulses, shiftedOut, lineStarts>>

\* ---------------------------------------------------------------------
\* The decoder as a record, so that a handler is a function on decoders.
\* cancelOn is the observer's behaviour during the call: the observer calls
\* cancel() from its callback for every event of type cancelOn ("none": never).
\* resetOn likewise: the observer calls reset() for every event of that type.
\* ---------------------------------------------------------------------
NoIndices == [lastSyncPulseIndex |-> 0, leaderBreakIndex |-> 0,
              syncPulses |-> [w \in Widths |-> <<>>], visCandidates |-> <<>>,
              syncPositions |-> <<>>]

NoShift == [amount |-> 0, before |-> NoIndices, after |-> NoIndices]

Self(cancelOn) ==
    [bufferWritePos |-> bufferWritePos, state |-> state, currentMode |-> currentMode,
     lastSyncPulseIndex |-> lastSyncPulseIndex,
     currentScanLineSamples |-> currentScanLineSamples,
     cancelled |-> cancelled, imageCompleted |-> imageCompleted,
     leaderBreakIndex |-> leaderBreakIndex, visCandidates |-> visCandidates,
     expectedScanLineSamples |-> expectedScanLineSamples,
     cumulativeDrift |-> cumulativeDrift, syncPositions |-> syncPositions,
     sync |-> sync, imageBuffer |-> imageBuffer,
     events |-> <<>>, imageLog |-> imageLog, oobWrite |-> oobWrite,
     lastShift |-> NoShift, cancelOn |-> cancelOn, resetOn |-> "none",
     shiftedOut |-> shiftedOut, lineStarts |-> lineStarts]

\* ---------------------------------------------------------------------
\* Events and observers
\* ---------------------------------------------------------------------
Ev(type, mode, line, what) == [type |-> type, mode |-> mode, line |-> line, what |-> what]

LoggedTypes == {"modeDetected", "line", "imageComplete", "flushed"}

deliver(d, ev) ==
    [d EXCEPT !.events = Append(@, ev),
              !.imageLog = IF ev.type \in LoggedTypes THEN Append(@, ev) ELSE @]

\* cancel() called by an observer from inside its callback
observerCancel(d) ==
    LET d1 == [d EXCEPT !.cancelled = TRUE]
    IN  IF d1.state # "cancelled"
        THEN deliver([d1 EXCEPT !.state = "cancelled"], Ev("stateChange", NoMode, 0, "cancelled"))
        ELSE d1

\* reset() is defined with the public methods below; an observer may call
\* it from inside its callback
RECURSIVE reset(_)

emit(d, ev) ==
    LET d1 == deliver(d, ev)
    IN  IF ev.type = d.cancelOn THEN observerCancel(d1)
        ELSE IF ev.type = d.resetOn THEN reset(d1)
        ELSE d1

setState(d, newState) ==
    IF d.state # newState
    THEN emit([d EXCEPT !.state = newState], Ev("stateChange", NoMode, 0, newState))
    ELSE d

\* ---------------------------------------------------------------------
\* SyncHistoryTracker
\* ---------------------------------------------------------------------
Zeros(n) == [i \in 1..n |-> 0]

\* observed: how many of the newest syncPulses entries are sync pulses that
\* were reported or seeded from a VIS header (the others are the zeros of
\* the constructor or of reset(), shifted or not)
NewTracker ==
    [syncPulses |-> Zeros(SyncPulseCount), scanLines |-> Zeros(ScanLineCount),
     observed |-> 0]

update(t, newIndex) ==
    [syncPulses |-> Append(Tail(t.syncPulses), newIndex),
     scanLines |-> Append(Tail(t.scanLines), newIndex - t.syncPulses[SyncPulseCount]),
     observed |-> Min(t.observed + 1, SyncPulseCount)]

adjustIndices(t, offset) ==
    [t EXCEPT !.syncPulses = [i \in 1..SyncPulseCount |-> t.syncPulses[i] - offset]]

hasValidData(t) == t.scanLines[1] # 0

populateFromVIS(lastSyncIndex, scanLineSamples) ==
    LET oldest == lastSyncIndex - (SyncPulseCount - 1) * scanLineSamples
    IN  [syncPulses |-> [i \in 1..SyncPulseCount |-> oldest + (i - 1) * scanLineSamples],
         scanLines |-> [i \in 1..ScanLineCount |-> scanLineSamples],
         observed |-> SyncPulseCount]

RECURSIVE SeqSum(_)
SeqSum(s) == IF s = <<>> THEN 0 ELSE Head(s) + SeqSum(Tail(s))

\* Math.round(calculateMean(scanLines))
meanRounded(scanLines) == RoundDiv(SeqSum(scanLines), Len(scanLines))

\* calculateStdDev(scanLines, mean) > tolerance, in integers:
\* sqrt(sum (x - S/n)^2 / n) > tol  <=>  sum (n x - S)^2 > n^3 tol^2
stdDevExceeds(scanLines, tolerance) ==
    LET n == Len(scanLines)
        S == SeqSum(scanLines)
        sq == [i \in 1..n |-> (n * scanLines[i] - S) * (n * scanLines[i] - S)]
    IN  SeqSum(sq) > n * n * n * tolerance * tolerance

RECURSIVE bestByTiming(_, _, _, _, _)
bestByTiming(modes, scanLineSamples, tolerance, bestMode, bestDist) ==
    IF modes = <<>> THEN bestMode
    ELSE LET dist == Abs(scanLineSamples - LineSamples(Head(modes)))
             better == dist <= tolerance /\ (bestMode = NoMode \/ dist < bestDist)
         IN  bestByTiming(Tail(modes), scanLineSamples, tolerance,
                          IF better THEN Head(modes) ELSE bestMode,
                          IF better THEN dist ELSE bestDist)

detectModeFromTiming(modes, scanLineSamples) ==
    bestByTiming(modes, scanLineSamples, FloorDiv(1 * sampleRate, 1000), NoMode, 0)

\* ---------------------------------------------------------------------
\* ImageChannelBuffer.  planeLines is the number of lines each channel
\* plane can hold (plane length / width).
\* ---------------------------------------------------------------------
NewImageBuffer == [mode |-> NoMode, linesDecoded |-> 0, allocatedHeight |-> 0, planeLines |-> 0]

allocate(b, mode) ==
    [mode |-> mode, linesDecoded |-> 0,
     allocatedHeight |-> Height(mode) + ExtraLines \div lineScale,
     planeLines |-> Height(mode) + ExtraLines \div lineScale]

\* a capacity that reaches past the allocated lines
getMaxLinesBeyond(b) == b.allocatedHeight + 2

getMaxLines(b) == b.allocatedHeight

resetImageBuffer(b) ==
    [b EXCEPT !.linesDecoded = 0,
              !.planeLines = IF b.mode # NoMode THEN Height(b.mode) ELSE @]

\* ---------------------------------------------------------------------
\* StreamingDecoder: private methods
\* ---------------------------------------------------------------------
Indices(d) ==
    [lastSyncPulseIndex |-> d.lastSyncPulseIndex, leaderBreakIndex |-> d.leaderBreakIndex,
     syncPulses |-> [w \in Widths |-> d.sync[w].syncPulses],
     visCandidates |-> [i \in 1..Len(d.visCandidates) |-> d.visCandidates[i].index],
     syncPositions |-> d.syncPositions]

shiftBuffer(d, amount) ==
    IF amount <= 0 \/ amount > d.bufferWritePos THEN d
    ELSE LET moved == [i \in 1..Len(d.visCandidates) |->
                          [d.visCandidates[i] EXCEPT !.index = @ - amount]]
             d1 == [d EXCEPT !.bufferWritePos = @ - amount,
                             !.shiftedOut = @ + amount,
                             !.lastSyncPulseIndex = @ - amount,
                             !.leaderBreakIndex = @ - amount,
                             !.sync = [w \in Widths |-> adjustIndices(d.sync[w], amount)],
                             !.visCandidates = SelectSeq(moved, LAMBDA c : c.index >= 0)]
         IN  [d1 EXCEPT !.lastShift = [amount |-> amount, before |-> Indices(d),
                                       after |-> Indices(d1)]]

setMode(d, mode, method) ==
    LET d1 == [d EXCEPT !.currentMode = mode,
                        !.currentScanLineSamples = LineSamples(mode),
                        !.imageCompleted = FALSE,
                        !.expectedScanLineSamples = LineSamples(mode),
                        !.cumulativeDrift = 0,
                        !.syncPositions = <<>>,
                        !.imageBuffer = allocate(@, mode),
                        !.imageLog = <<>>,
                        !.lineStarts = <<>>]
    IN  emit(setState(d1, "decoding-image"), Ev("modeDetected", mode, 0, method))

emitLine(d, line) ==
    IF d.currentMode = NoMode THEN d
    ELSE emit(d, Ev("line", d.currentMode, line, ""))

decodeStandardLine(d, syncPulseIndex, line) ==
    IF d.currentMode = NoMode THEN d
    ELSE emitLine([d EXCEPT !.imageBuffer.linesDecoded = @ + 1,
                            !.lineStarts = Append(@, syncPulseIndex + d.shiftedOut)],
                  line)

decodePDLine(d, syncPulseIndex, linePair) ==
    IF d.currentMode = NoMode THEN d
    ELSE IF linePair + 1 >= getMaxLines(d.imageBuffer) THEN d
    ELSE emitLine(emitLine([d EXCEPT !.imageBuffer.linesDecoded = @ + 2,
                                     !.lineStarts = Append(@, syncPulseIndex + d.shiftedOut)],
                           linePair),
                  linePair + 1)

decodeLineAt(d, syncPulseIndex, scanLineSamples) ==
    IF d.currentMode = NoMode THEN d
    ELSE IF d.imageCompleted THEN d
    ELSE IF d.imageBuffer.linesDecoded >= getMaxLines(d.imageBuffer) THEN d
    ELSE IF syncPulseIndex < 0 \/ syncPulseIndex + scanLineSamples > d.bufferWritePos THEN d
    ELSE IF isPDMode(d.currentMode)
         THEN decodePDLine(d, syncPulseIndex, d.imageBuffer.linesDecoded)
         ELSE decodeStandardLine(d, syncPulseIndex, d.imageBuffer.linesDecoded)

\* for (i = 0; i < count; i++) decodeLineAt(first + i * step, step)
RECURSIVE decodeLinesFrom(_, _, _, _)
decodeLinesFrom(d, first, step, count) ==
    IF count <= 0 THEN d
    ELSE decodeLinesFrom(decodeLineAt(d, first, step), first + step, step, count - 1)

\* for (i = from; i <= ScanLineCount; i++) decodeLineAt(t.syncPulses[i], t.scanLines[i])
RECURSIVE decodeTracked(_, _, _)
decodeTracked(d, t, from) ==
    IF from > ScanLineCount THEN d
    ELSE decodeTracked(decodeLineAt(d, t.syncPulses[from], t.scanLines[from]), t, from + 1)

cleanUpBuffer(d) ==
    LET keepSamples == d.currentScanLineSamples * 2
    IN  IF d.lastSyncPulseIndex > keepSamples
        THEN shiftBuffer(d, d.lastSyncPulseIndex - keepSamples)
        ELSE d

\* the checks of processSyncPulse that end it before anything is decoded
syncPulseRejected(d, t, scanLineSamples) ==
    \/ ~hasValidData(t)
    \/ scanLineSamples < scanLineMinSamples
    \/ stdDevExceeds(t.scanLines, scanLineToleranceSamples)
    \/ /\ d.currentMode # NoMode
       /\ Abs(scanLineSamples - d.currentScanLineSamples) > scanLineToleranceSamples

\* processSyncPulse: the mode latch by timing (no mode yet), or the drift
\* tracking of the latched mode
latchOrTrack(d, detectedMode, scanLineSamples) ==
    IF d.currentMode = NoMode
    THEN IF detectedMode # NoMode
         THEN [setMode(d, detectedMode, "timing") EXCEPT
                  !.expectedScanLineSamples = LineSamples(detectedMode),
                  !.cumulativeDrift = 0,
                  !.syncPositions = <<>>]
         ELSE d
    ELSE [d EXCEPT !.cumulativeDrift = @ + (scanLineSamples - d.expectedScanLineSamples)]

\* processSyncPulse from the push of the sync position on: the extrapolated
\* lines before the oldest tracked pulse (after a latch by timing), the lines
\* of the tracked pulses, the new line timing and the clean-up of the buffer
decodeSyncLines(d, t, scanLineSamples, modeChanged, latestSyncIndex) ==
    LET endPulse == t.syncPulses[1]
        extrapolate == IF modeChanged /\ endPulse >= scanLineSamples
                       THEN FloorDiv(endPulse, scanLineSamples)
                       ELSE 0
    IN  cleanUpBuffer(
            [decodeTracked(
                 decodeLinesFrom([d EXCEPT !.syncPositions = Append(@, latestSyncIndex)],
                                 endPulse - extrapolate * scanLineSamples,
                                 scanLineSamples, extrapolate),
                 t, IF modeChanged THEN 1 ELSE ScanLineCount)
             EXCEPT !.lastSyncPulseIndex = latestSyncIndex,
                    !.currentScanLineSamples = scanLineSamples])

\* detectModeFromTiming as processSyncPulse uses it: only while no mode is latched
detectIfSearching(d, width, scanLineSamples) ==
    IF d.currentMode = NoMode
    THEN detectModeFromTiming(categorizeModesBySyncPulse[width], scanLineSamples)
    ELSE NoMode

acceptSyncPulse(d, t, scanLineSamples, detectedMode, latestSyncIndex) ==
    decodeSyncLines(latchOrTrack(d, detectedMode, scanLineSamples), t, scanLineSamples,
                    d.currentMode = NoMode /\ detectedMode # NoMode, latestSyncIndex)

measuredSyncPulse(d, t, scanLineSamples, width, latestSyncIndex) ==
    IF syncPulseRejected(d, t, scanLineSamples) THEN d
    ELSE acceptSyncPulse(d, t, scanLineSamples,
                         detectIfSearching(d, width, scanLineSamples), latestSyncIndex)

processSyncPulse(d, width, latestSyncIndex) ==
    measuredSyncPulse(d, d.sync[width], meanRounded(d.sync[width].scanLines),
                      width, latestSyncIndex)

handleSyncPulse(d, width, index, vis) ==
    LET d1 == IF width \in {9, 20}
              THEN [d EXCEPT !.leaderBreakIndex = index,
                             !.visCandidates = Append(@, [index |-> index, vis |-> vis])]
              ELSE d
        d2 == [d1 EXCEPT !.sync[width] = update(@, index)]
    IN  processSyncPulse(d2, width, index)

\* VISDecoder.tryDecode.  What the FFT reads in the audio behind the break is
\* the candidate's vis: a VIS code word that resolves to a mode, or NoMode.
tryDecode(bufferLength, candidate) ==
    LET breakIndex == candidate.index
        requiredEnd == breakIndex + leaderToneSamples + leaderToneToleranceSamples
                       + visCodeSamples
        visBeginIndex == breakIndex + leaderToneSamples + breakSamples
        lastBitEnd == visBeginIndex + 9 * visCodeBitSamples + 5 + visCodeBitSamples - 10
    IN  IF breakIndex < visCodeBitSamples + leaderToneToleranceSamples THEN NoMode
        ELSE IF bufferLength < requiredEnd THEN NoMode
        ELSE IF lastBitEnd >= bufferLength THEN NoMode
        ELSE getModeByVIS(candidate.vis)

populateSyncHistoryFromVIS(d, mode) ==
    LET us == ModeTable[mode].syncUs
        width == IF Abs(us - 5000) < 1000 THEN 5
                 ELSE IF Abs(us - 9000) < 1000 THEN 9
                 ELSE 20
    IN  [d EXCEPT !.sync[width] =
            populateFromVIS(d.lastSyncPulseIndex, d.currentScanLineSamples)]

RemoveAt(s, i) == SubSeq(s, 1, i - 1) \o SubSeq(s, i + 1, Len(s))

\* a VIS header read while an image is more than 10% decoded is ignored
\* unless the sync pulses of the two modes are within 5 ms of each other
visRejected(d, mode) ==
    /\ d.currentMode # NoMode
    /\ d.imageBuffer.linesDecoded > 0
    /\ d.imageBuffer.linesDecoded * lineScale * 10 > ModeTable[d.currentMode].height
    /\ Abs(ModeTable[d.currentMode].syncUs - ModeTable[mode].syncUs) > 5000

latchFromVIS(d, mode, candidate) ==
    LET d1 == [setMode(d, mode, "vis") EXCEPT !.visCandidates = <<>>]
        d2 == [d1 EXCEPT !.lastSyncPulseIndex = calculateImageStartIndex(candidate.index),
                         !.currentScanLineSamples = LineSamples(mode)]
    IN  populateSyncHistoryFromVIS(d2, mode)

\* the candidate loop, from candidate i down to 1; returned: the loop ended
\* by the return after a latch
RECURSIVE checkCandidatesFrom(_, _)
checkCandidatesFrom(d, i) ==
    IF i < 1 THEN [d |-> d, returned |-> FALSE]
    ELSE LET candidate == d.visCandidates[i]
         IN  IF d.bufferWritePos >= candidate.index + getRequiredSamples
             THEN LET mode == tryDecode(d.bufferWritePos, candidate)
                  IN  IF mode # NoMode
                      THEN IF visRejected(d, mode)
                           THEN checkCandidatesFrom(
                                    [d EXCEPT !.visCandidates = RemoveAt(@, i)], i - 1)
                           ELSE [d |-> latchFromVIS(d, mode, candidate), returned |-> TRUE]
                      ELSE checkCandidatesFrom(
                               [d EXCEPT !.visCandidates = RemoveAt(@, i)], i - 1)
             ELSE checkCandidatesFrom(d, i - 1)

\* the end of checkVisCandidates: unless a latch returned, keep the newest candidates
trimVisCandidates(r) ==
    IF r.returned \/ Len(r.d.visCandidates) <= MaxVisCandidates THEN r.d
    ELSE [r.d EXCEPT !.visCandidates =
             SubSeq(@, Len(@) - MaxVisCandidates + 1, Len(@))]

checkVisCandidates(d) ==
    IF d.currentMode # NoMode /\ ~allowVisInterrupt THEN d
    ELSE trimVisCandidates(checkCandidatesFrom(d, Len(d.visCandidates)))

\* the loop of decodeLinesByTiming, line i of linesToDecode
RECURSIVE timingLoop(_, _, _)
timingLoop(d, i, linesToDecode) ==
    IF i >= linesToDecode THEN d
    ELSE IF d.imageBuffer.linesDecoded >= getMaxLines(d.imageBuffer) THEN d
    ELSE LET lineStartIndex == d.lastSyncPulseIndex + i * d.currentScanLineSamples
             lineEndIndex == lineStartIndex + d.currentScanLineSamples
         IN  timingLoop(IF lineEndIndex <= d.bufferWritePos
                        THEN decodeLineAt(d, lineStartIndex, d.currentScanLineSamples)
                        ELSE d,
                        i + 1, linesToDecode)

decodeLinesByTiming(d) ==
    IF d.currentMode = NoMode THEN d
    ELSE IF d.currentScanLineSamples = 0 THEN d
    ELSE LET linesToDecode == FloorDiv(d.bufferWritePos - d.lastSyncPulseIndex,
                                       d.currentScanLineSamples)
         IN  IF linesToDecode <= 0 THEN d
             ELSE cleanUpBuffer([timingLoop(d, 0, linesToDecode) EXCEPT
                                    !.lastSyncPulseIndex =
                                        @ + linesToDecode * d.currentScanLineSamples])

\* sampleBuffer[bufferWritePos++] = sample
storeSample(d) ==
    [d EXCEPT !.oobWrite = @ \/ d.bufferWritePos >= maxBufferSamples,
              !.bufferWritePos = @ + 1]

\* the loop of process() that stores the chunk in the sample buffer; the
\* iterations that find room in the buffer are taken together
RECURSIVE storeSamples(_, _)
storeSamples(d, n) ==
    IF n = 0 THEN d
    ELSE IF d.bufferWritePos >= maxBufferSamples
    THEN storeSamples(storeSample(shiftBuffer(d, FloorDiv(maxBufferSamples, 2))), n - 1)
    ELSE storeSamples([d EXCEPT !.bufferWritePos =
                                    @ + Min(n, maxBufferSamples - d.bufferWritePos)],
                      n - Min(n, maxBufferSamples - d.bufferWritePos))

\* ---------------------------------------------------------------------
\* StreamingDecoder: public methods.  n: samples.length; pulse: what the
\* demodulator reports for the chunk (NoSync, or the last valid pulse)
\* ---------------------------------------------------------------------
\* process(): the handling of the demodulator's result
processSync(d, n, pulse) ==
    IF pulse.width # 0
    THEN handleSyncPulse(d, pulse.width, d.bufferWritePos + pulse.offset - n, pulse.vis)
    ELSE d

\* process(): the timing-based decode when the chunk had no sync pulse
processTiming(d, pulse) ==
    IF /\ pulse.width = 0
       /\ d.currentMode # NoMode
       /\ d.imageBuffer.linesDecoded < getMaxLines(d.imageBuffer)
    THEN decodeLinesByTiming(d)
    ELSE d

\* process(): the progress event while searching
processSearching(d) ==
    IF d.currentMode = NoMode /\ d.state = "searching"
    THEN emit(d, Ev("searching", NoMode, 0, ""))
    ELSE d

\* process() without its first statement, if (this.cancelled) return false
processIgnoringCancel(d, n, pulse) ==
    processSearching(
        processTiming(
            checkVisCandidates(processSync(storeSamples(d, n), n, pulse)),
            pulse))

process(d, n, pulse) ==
    IF d.cancelled THEN d
    ELSE processSearching(
             processTiming(
                 checkVisCandidates(processSync(storeSamples(d, n), n, pulse)),
                 pulse))

processReturns(d) == ~d.cancelled

cancel(d) == setState([d EXCEPT !.cancelled = TRUE], "cancelled")

\* a loop that decodes a line from any samples left, however few
RECURSIVE flushLoopAnySamples(_)
flushLoopAnySamples(d) ==
    IF d.imageBuffer.linesDecoded >= getMaxLines(d.imageBuffer) THEN d
    ELSE LET lineStartIndex == d.lastSyncPulseIndex
             availableSamples == d.bufferWritePos - lineStartIndex
         IN  IF availableSamples < 0 THEN d
             ELSE flushLoopAnySamples(
                      [decodeLineAt(d, lineStartIndex,
                                    Min(d.currentScanLineSamples, availableSamples))
                       EXCEPT !.lastSyncPulseIndex = @ + d.currentScanLineSamples])

\* a loop that decodes whole lines only
RECURSIVE flushLoopWholeLines(_)
flushLoopWholeLines(d) ==
    IF d.imageBuffer.linesDecoded >= getMaxLines(d.imageBuffer) THEN d
    ELSE LET lineStartIndex == d.lastSyncPulseIndex
             availableSamples == d.bufferWritePos - lineStartIndex
         IN  IF availableSamples < d.currentScanLineSamples THEN d
             ELSE flushLoopWholeLines(
                      [decodeLineAt(d, lineStartIndex,
                                    Min(d.currentScanLineSamples, availableSamples))
                       EXCEPT !.lastSyncPulseIndex = @ + d.currentScanLineSamples])

\* the while loop of flush()
RECURSIVE flushLoop(_)
flushLoop(d) ==
    IF d.imageBuffer.linesDecoded >= getMaxLines(d.imageBuffer) THEN d
    ELSE LET lineStartIndex == d.lastSyncPulseIndex
             availableSamples == d.bufferWritePos - lineStartIndex
         IN  IF 2 * availableSamples < d.currentScanLineSamples THEN d
             ELSE flushLoop([decodeLineAt(d, lineStartIndex,
                                          Min(d.currentScanLineSamples, availableSamples))
                             EXCEPT !.lastSyncPulseIndex = @ + d.currentScanLineSamples])

flush(d) ==
    IF d.cancelled \/ d.currentMode = NoMode THEN d
    ELSE IF /\ d.currentScanLineSamples > 0
            /\ d.imageBuffer.linesDecoded < getMaxLines(d.imageBuffer)
         THEN flushLoop(d)
         ELSE d

\* the image flush() returns: the number of lines of the returned
\* ImageCompleteEvent, or 0 for null (d is the decoder before the call,
\* e the decoder after it)
flushReturns(d, e) ==
    IF d.cancelled \/ d.currentMode = NoMode THEN 0
    ELSE e.imageBuffer.linesDecoded

\* resetForNextImage and emitImageComplete: no method of the class calls
\* emitImageComplete, so neither is part of any action below
resetForNextImage(d) ==
    emit([d EXCEPT !.imageCompleted = TRUE,
                   !.cumulativeDrift = 0,
                   !.syncPositions = <<>>,
                   !.imageBuffer = resetImageBuffer(@),
                   !.sync = [w \in Widths |-> NewTracker]],
         Ev("reset", NoMode, 0, ""))

emitImageComplete(d) ==
    IF d.currentMode = NoMode THEN d
    ELSE resetForNextImage(
             emit(d, Ev("imageComplete", d.currentMode, d.imageBuffer.linesDecoded, "")))

getPartialImage(d) ==
    IF d.currentMode = NoMode \/ d.imageBuffer.linesDecoded = 0
    THEN [mode |-> NoMode, lines |-> 0]
    ELSE [mode |-> d.imageBuffer.mode, lines |-> d.imageBuffer.linesDecoded]

\* a reset that clears the fields but does not latch the forced mode again
resetWithoutForcedMode(d) ==
    emit(setState([d EXCEPT !.cancelled = FALSE, !.currentMode = NoMode,
                            !.imageCompleted = FALSE, !.bufferWritePos = 0,
                            !.lastSyncPulseIndex = 0, !.currentScanLineSamples = 0,
                            !.leaderBreakIndex = 0, !.visCandidates = <<>>,
                            !.expectedScanLineSamples = 0, !.cumulativeDrift = 0,
                            !.syncPositions = <<>>,
                            !.imageBuffer = resetImageBuffer(@), !.imageLog = <<>>,
                            !.shiftedOut = 0, !.lineStarts = <<>>,
                            !.sync = [w \in Widths |-> NewTracker]], "searching"),
         Ev("reset", NoMode, 0, ""))

reset(d) ==
    LET d1 == [d EXCEPT !.cancelled = FALSE,
                        !.currentMode = NoMode,
                        !.imageCompleted = FALSE,
                        !.bufferWritePos = 0,
                        !.lastSyncPulseIndex = 0,
                        !.currentScanLineSamples = 0,
                        !.leaderBreakIndex = 0,
                        !.visCandidates = <<>>,
                        !.expectedScanLineSamples = 0,
                        !.cumulativeDrift = 0,
                        !.syncPositions = <<>>,
                        !.imageBuffer = resetImageBuffer(@),
                        !.imageLog = <<>>,
                        !.shiftedOut = 0,
                        !.lineStarts = <<>>,
                        !.sync = [w \in Widths |-> NewTracker]]
        d2 == setState(d1, "searching")
        d3 == IF forcedMode # NoMode /\ getModeByVIS(forcedMode) # NoMode
              THEN setMode(d2, getModeByVIS(forcedMode), "vis")
              ELSE d2
    IN  emit(d3, Ev("reset", NoMode, 0, ""))

\* ---------------------------------------------------------------------
\* Initial state: the decoder as the constructor leaves it.  No observer
\* can be registered before the constructor returns, so the events the
\* constructor emits for a forced mode are delivered to nobody.
\* ---------------------------------------------------------------------
Fresh ==
    [bufferWritePos |-> 0, state |-> "searching", currentMode |-> NoMode,
     lastSyncPulseIndex |-> 0, currentScanLineSamples |-> 0,
     cancelled |-> FALSE, imageCompleted |-> FALSE,
     leaderBreakIndex |-> 0, visCandidates |-> <<>>,
     expectedScanLineSamples |-> 0, cumulativeDrift |-> 0, syncPositions |-> <<>>,
     sync |-> [w \in Widths |-> NewTracker], imageBuffer |-> NewImageBuffer,
     events |-> <<>>, imageLog |-> <<>>, oobWrite |-> FALSE,
     lastShift |-> NoShift, cancelOn |-> "none", resetOn |-> "none",
     shiftedOut |-> 0, lineStarts |-> <<>>]

constructed(forced) ==
    LET d == IF forced # NoMode /\ getModeByVIS(forced) # NoMode
             THEN setMode(Fresh, getModeByVIS(forced), "vis")
             ELSE Fresh
    IN  [d EXCEPT !.events = <<>>, !.imageLog = <<>>]

Holds(d) ==
    /\ bufferWritePos = d.bufferWritePos
    /\ state = d.state
    /\ currentMode = d.currentMode
    /\ lastSyncPulseIndex = d.lastSyncPulseIndex
    /\ currentScanLineSamples = d.currentScanLineSamples
    /\ cancelled = d.cancelled
    /\ imageCompleted = d.imageCompleted
    /\ leaderBreakIndex = d.leaderBreakIndex
    /\ visCandidates = d.visCandidates
    /\ expectedScanLineSamples = d.expectedScanLineSamples
    /\ cumulativeDrift = d.cumulativeDrift
    /\ syncPositions = d.syncPositions
    /\ sync = d.sync
    /\ imageBuffer = d.imageBuffer
    /\ events = d.events
    /\ imageLog = d.imageLog
    /\ oobWrite = d.oobWrite
    /\ lastShift = d.lastShift
    /\ shiftedOut = d.shiftedOut
    /\ lineStarts = d.lineStarts

Becomes(d) ==
    /\ bufferWritePos' = d.bufferWritePos
    /\ state' = d.state
    /\ currentMode' = d.currentMode
    /\ lastSyncPulseIndex' = d.lastSyncPulseIndex
    /\ currentScanLineSamples' = d.currentScanLineSamples
    /\ cancelled' = d.cancelled
    /\ imageCompleted' = d.imageCompleted
    /\ leaderBreakIndex' = d.leaderBreakIndex
    /\ visCandidates' = d.visCandidates
    /\ expectedScanLineSamples' = d.expectedScanLineSamples
    /\ cumulativeDrift' = d.cumulativeDrift
    /\ syncPositions' = d.syncPositions
    /\ sync' = d.sync
    /\ imageBuffer' = d.imageBuffer
    /\ events' = d.events
    /\ imageLog' = d.imageLog
    /\ oobWrite' = d.oobWrite
    /\ lastShift' = d.lastShift
    /\ shiftedOut' = d.shiftedOut
    /\ lineStarts' = d.lineStarts

\* options.maxBufferSeconds * options.sampleRate, floored
BufferSamples(tenths) == FloorDiv(tenths * sampleRate, 10)

\* The record of an API call: its name, what it returned ("true"/"false" for
\* process, "image"/"null" for flush), the lines of the returned image, and
\* getMode() and getLinesDecoded() as they were before the call
Call(op, returned, lines) ==
    [op |-> op, returned |-> returned, lines |-> lines,
     modeBefore |-> currentMode, linesBefore |-> imageBuffer.linesDecoded]

\* ---------------------------------------------------------------------
\* VIS words: the code word the encoder writes, and what each decode path
\* makes of the 8 bits it reads (every bit tone already validated)
\* ---------------------------------------------------------------------
MODE_REGISTRY == {44, 40, 60, 56, 76, 8, 12, 2, 55, 93, 99, 95, 98, 96, 97, 94}

Bit(x, i) == (x \div (2 ^ i)) % 2
FlipBit(x, i) == IF Bit(x, i) = 1 THEN x - 2 ^ i ELSE x + 2 ^ i
Ones(x, n) == Cardinality({i \in 0..(n - 1) : Bit(x, i) = 1})

\* SSTVEncoder.writeVISCode: 7 data bits and the even-parity bit
writeVISCode(visCode) == (visCode % 128) + 128 * (Ones(visCode, 7) % 2)

lookupVIS(visCode) == IF visCode \in MODE_REGISTRY THEN visCode ELSE NoMode

tryParityCorrection(originalCode) ==
    LET hits == {i \in 0..6 : lookupVIS(FlipBit(originalCode, i)) # NoMode}
    IN  IF hits = {} THEN NoMode
        ELSE FlipBit(originalCode, CHOOSE i \in hits : \A j \in hits : i <= j)

\* the end of VISDecoder.tryDecode
tryDecodeBits(word) ==
    IF Ones(word, 8) % 2 = 1 THEN tryParityCorrection(word % 128)
    ELSE lookupVIS(word % 128)

\* the end of VISDecoder.tryDecodeFromDemodulated
tryDecodeFromDemodulatedBits(word) ==
    IF Ones(word, 8) % 2 = 1 THEN tryParityCorrection(word % 128)
    ELSE lookupVIS(word % 128)

\* the end of SSTVDecoder.tryDecodeVIS (batch decoder)
tryDecodeVIS(word) == lookupVIS(word % 128)

InitAt(rate, scale, buffers, forced, interrupts) ==
    /\ sampleRate = rate
    /\ chunkPulses = <<>>
    /\ probe = [fn |-> "none", args |-> <<>>, out |-> 0]
    /\ hannWindowCache = {}
    /\ hannWindowLRU = <<>>
    /\ visWord = 0
    /\ visModes = [raw |-> NoMode, demodulated |-> NoMode, batch |-> NoMode,
                   decoded |-> FALSE]
    /\ lineScale = scale
    /\ maxBufferSamples \in buffers
    /\ forcedMode \in forced
    /\ allowVisInterrupt \in interrupts
    /\ Holds(constructed(forcedMode))
    /\ lastCall = [op |-> "new", returned |-> "void", lines |-> 0,
                   modeBefore |-> NoMode, linesBefore |-> 0]
    /\ totalSamples = 0

InitScaled(scale, buffers, forced, interrupts) ==
    InitAt(SampleRate, scale, buffers, forced, interrupts)

InitWith(buffers, forced, interrupts) == InitScaled(LineScale, buffers, forced, interrupts)

\* default options
Init == InitWith({BufferSamples(BigBufferTenths)}, {NoMode}, {FALSE})

\* with and without forceMode (PD 50)
InitEither == InitWith({BufferSamples(BigBufferTenths)}, {NoMode, 93}, {FALSE})

\* allowVisInterrupt: true
InitInterrupt == InitWith({BufferSamples(BigBufferTenths)}, {NoMode}, {TRUE})

\* forceMode: PD 50
InitForced == InitWith({BufferSamples(BigBufferTenths)}, {93}, {FALSE})

\* allowVisInterrupt: true, with the finer division of the image heights
InitFineLines ==
    InitScaled(FineLineScale, {BufferSamples(BigBufferTenths)}, {NoMode}, {TRUE})

\* forceMode: Robot 72, default maxBufferSeconds (10 s), at FastSampleRate
InitDrift == InitAt(FastSampleRate, LineScale, {10 * FastSampleRate}, {12}, {FALSE})

\* forceMode is a number that is no registered VIS code
UnregisteredCode == 1

InitInvalidForced == InitWith({BufferSamples(BigBufferTenths)}, {UnregisteredCode}, {FALSE})

\* new SSTVEncoder({mode: code}): the mode it holds, or "Error" when it throws
SSTVEncoder(code) ==
    IF getModeByVIS(code) = NoMode THEN "Error" ELSE getModeByVIS(code)

\* a maxBufferSeconds shorter than the stream
InitSmallBuffer == InitWith({BufferSamples(SmallBufferTenths)}, {NoMode}, {FALSE})

\* a maxBufferSeconds of less than two samples
InitTinyBuffer == InitWith({BufferSamples(TinyBufferTenths)}, {NoMode}, {FALSE})

\* ---------------------------------------------------------------------
\* Actions: one per public method
\* ---------------------------------------------------------------------
\* What the demodulator can report for a chunk of n samples.  A VIS break
\* lasts 10 ms and is reported as a 9 ms pulse, so only a 9 ms pulse can have
\* a readable VIS header behind it.
VisWords == {NoMode, 60, 12, 93}

Pulses(n) ==
    {NoSync} \cup
    [width : {5, 20}, offset : (0 - MaxPulseBack)..(n - 1), vis : {NoMode}] \cup
    [width : {9}, offset : (0 - MaxPulseBack)..(n - 1), vis : VisWords]

ObserverCancelsOn == {"none", "line"}

\* the state after a call that turned decoder d into decoder e
Returned(e, op, returned, lines) ==
    /\ Becomes(e)
    /\ lastCall' = Call(op, returned, lines)
    /\ UNCHANGED options
    /\ UNCHANGED <<visWord, visModes, probe, hannWindowCache, hannWindowLRU>>

afterProcess(e, n) ==
    /\ Returned(e, "process", IF processReturns(e) THEN "true" ELSE "false", 0)
    /\ totalSamples' = totalSamples + n

\* the log of the image after flush() returned it (flush() calls that follow
\* one another are logged once)
logFlushed(e, lines) ==
    IF e.imageLog # <<>> /\ e.imageLog[Len(e.imageLog)].type = "flushed" THEN e
    ELSE [e EXCEPT !.imageLog = Append(@, Ev("flushed", e.currentMode, lines, ""))]

afterFlush(d, e) ==
    /\ chunkPulses' = <<>>
    /\ IF flushReturns(d, e) > 0
       THEN Returned(logFlushed(e, flushReturns(d, e)), "flush", "image",
                     flushReturns(d, e))
       ELSE Returned(e, "flush", "null", 0)
    /\ UNCHANGED totalSamples

Process(n, pulse, cancelOn) ==
    /\ totalSamples + n <= MaxSamples
    /\ afterProcess(process(Self(cancelOn), n, pulse), n)
    /\ chunkPulses' = <<>>

\* Demodulator.process over a chunk whose audio holds the given valid sync
\* pulses: every pulse overwrites the result of the one before
demodulatorProcess(pulses) ==
    IF pulses = <<>> THEN NoSync ELSE pulses[Len(pulses)]

\* the sync pulses that may start at one place of a chunk
PulsesAt(offset) ==
    [width : {5, 20}, offset : {offset}, vis : {NoMode}] \cup
    [width : {9}, offset : {offset}, vis : {NoMode, 60}]

\* the chunks by the sync pulses they hold: none, one, or two
ChunkPulses ==
    {<<>>} \cup {<<p>> : p \in PulsesAt(FirstPulseAt) \cup PulsesAt(SecondPulseAt)}
           \cup {<<p, q>> : p \in PulsesAt(FirstPulseAt), q \in PulsesAt(SecondPulseAt)}

\* process(samples) on a chunk given by the sync pulses in its audio
ProcessChunk(n, pulses, cancelOn) ==
    /\ totalSamples + n <= MaxSamples
    /\ afterProcess(process(Self(cancelOn), n, demodulatorProcess(pulses)), n)
    /\ chunkPulses' = pulses

Flush(cancelOn) ==
    afterFlush(Self(cancelOn), flush(Self(cancelOn)))

Cancel ==
    /\ Returned(cancel(Self("none")), "cancel", "void", 0)
    /\ UNCHANGED totalSamples
    /\ chunkPulses' = <<>>

Reset ==
    /\ Returned(reset(Self("none")), "reset", "void", 0)
    /\ totalSamples' = 0
    /\ chunkPulses' = <<>>

\* ---------------------------------------------------------------------
\* Demodulator: the width of a released sync pulse
\* ---------------------------------------------------------------------
SampleRates == {44100, 48000}

\* Demodulator.constructor: the four thresholds, in samples (times in half
\* milliseconds: 5 = 5 ms / 2, 14 = (5 + 9) / 2 ms, 29 = (9 + 20) / 2 ms,
\* 50 = 20 + 5 ms)
syncPulseSamples(rate) ==
    [min5 |-> RoundDiv(5 * rate, 2000),
     max5 |-> RoundDiv(14 * rate, 2000),
     max9 |-> RoundDiv(29 * rate, 2000),
     max20 |-> RoundDiv(50 * rate, 2000)]

\* a classification whose 9 ms / 20 ms boundary is the 5 ms / 9 ms one
syncPulseWidthMerged(syncPulseCounter, rate) ==
    LET t == syncPulseSamples(rate)
    IN  IF syncPulseCounter < t.min5 \/ syncPulseCounter > t.max20 THEN 0
        ELSE IF syncPulseCounter < t.max5 THEN 5
        ELSE 20

\* Demodulator.process, when the trigger releases after syncPulseCounter
\* samples at the sync frequency: the width reported (0: no pulse)
syncPulseWidth(syncPulseCounter, rate) ==
    LET t == syncPulseSamples(rate)
    IN  IF syncPulseCounter < t.min5 \/ syncPulseCounter > t.max20 THEN 0
        ELSE IF syncPulseCounter < t.max5 THEN 5
        ELSE IF syncPulseCounter < t.max9 THEN 9
        ELSE 20

\* one pulse released by a demodulator constructed for that rate
ReleasePulse(syncPulseCounter, rate) ==
    /\ probe.fn = "none"
    /\ probe' = [fn |-> "syncPulseWidth", args |-> <<syncPulseCounter, rate>>,
                 out |-> syncPulseWidth(syncPulseCounter, rate)]
    /\ UNCHANGED decoderVars
    /\ UNCHANGED <<visWord, visModes, hannWindowCache, hannWindowLRU>>

NextSync ==
    \E rate \in SampleRates : \E syncPulseCounter \in 0..MaxPulseCounter :
        ReleasePulse(syncPulseCounter, rate)

\* ---------------------------------------------------------------------
\* RGB conversion of a 2-channel YCrCb image (Robot 36), one pixel wide.
\* source: per line, the [u, v] of the picture; chroma: channel 1 per line.
\* Lines are numbered from 0 as in the code (sequence index = line + 1).

\* Math.round(num / den) for den > 0
yuvToRgb(y, u, v) ==
    LET round(num, den) == FloorDiv(2 * num + den, 2 * den)
        clamp(x) == IF x < 0 THEN 0 ELSE IF x > 255 THEN 255 ELSE x
    IN  << clamp(round(1000 * y + 1402 * (v - 128), 1000)),
           clamp(round(1000000 * y - 344136 * (u - 128) - 714136 * (v - 128), 1000000)),
           clamp(round(1000 * y + 1772 * (u - 128), 1000)) >>

\* the encoder's channel 1: V on even lines, U on odd lines
encodeChroma(source) ==
    [l \in 1..Len(source) |-> IF (l - 1) % 2 = 0 THEN source[l].v ELSE source[l].u]

interpolateChroma(currentLine, height, chroma) ==
    LET evenLine == currentLine - (currentLine % 2)
        oddLine == evenLine + 1
    IN  [v |-> IF evenLine < height THEN chroma[evenLine + 1] ELSE 128,
         u |-> IF oddLine < height THEN chroma[oddLine + 1] ELSE 128]

\* ImageChannelBuffer.convertLineToRGB, the 2-channel branch
convertLineToRGB(line, y, chroma) ==
    LET isEvenLine == line % 2 = 0
        u == IF isEvenLine THEN chroma[line + 1] ELSE 128
        v == IF isEvenLine THEN 128 ELSE chroma[line + 1]
    IN  yuvToRgb(y, u, v)

\* imageDataToRGB, the 2-channel branch, for one line of the image
imageDataToRGB(line, y, chroma) ==
    LET c == interpolateChroma(line, Len(chroma), chroma)
    IN  yuvToRgb(y, c.u, c.v)

\* a line event or toRGB(): the per-line conversion of one line
ConvertLine(line, y, source) ==
    /\ probe.fn = "none"
    /\ probe' = [fn |-> "convertLineToRGB", args |-> <<line, y, source>>,
                 out |-> convertLineToRGB(line, y, encodeChroma(source))]
    /\ UNCHANGED decoderVars
    /\ UNCHANGED <<visWord, visModes, hannWindowCache, hannWindowLRU>>

\* the full-image conversion, observed at one line
ConvertImage(line, y, source) ==
    /\ probe.fn = "none"
    /\ probe' = [fn |-> "imageDataToRGB", args |-> <<line, y, source>>,
                 out |-> imageDataToRGB(line, y, encodeChroma(source))]
    /\ UNCHANGED decoderVars
    /\ UNCHANGED <<visWord, visModes, hannWindowCache, hannWindowLRU>>

NextChroma ==
    \E height \in 1..MaxChromaLines :
    \E source \in [1..height -> [u : {DarkSample, BrightSample}, v : {DarkSample, BrightSample}]] :
    \E line \in 0..(height - 1) : \E y \in {DarkSample, BrightSample} :
        \/ ConvertLine(line, y, source)
        \/ ConvertImage(line, y, source)

\* ---------------------------------------------------------------------
\* LinePixelDecoder on one line of PixelsPerLine pixels whose channels follow
\* each other without gaps. A written pixel is represented by the number of
\* samples of the window its value was computed from; 0 is the default of
\* a pixel that was never written.

\* the window of one pixel: windowStart, and windowEnd after Math.min
pixelWindowAt(channelStart, pixel, bufferLength) ==
    LET windowStart == channelStart + pixel * PixelSamples - HalfWindowSamples
    IN  [start |-> windowStart,
         end |-> Min(windowStart + 2 * HalfWindowSamples, bufferLength)]

\* the value stored for a pixel, or the default it keeps when skipped
decodePixel(channelStart, pixel, bufferLength) ==
    LET w == pixelWindowAt(channelStart, pixel, bufferLength)
    IN  IF w.end > w.start /\ w.start >= 0 /\ w.end <= bufferLength
        THEN w.end - w.start ELSE 0

\* three channels of one line: out[ch][pixel]
decodeStandardLine_pixels(syncPulseIndex, bufferLength) ==
    [ch \in 0..2 |-> [pixel \in 0..(PixelsPerLine - 1) |->
        decodePixel(syncPulseIndex + ch * PixelsPerLine * PixelSamples, pixel, bufferLength)]]

\* four transmitted channels (Y-even, V, U, Y-odd) of one line pair, as
\* the planes they are stored in: out[plane][line][pixel]
decodePDLinePair(syncPulseIndex, bufferLength) ==
    LET tx(ch) == [pixel \in 0..(PixelsPerLine - 1) |->
                      decodePixel(syncPulseIndex + ch * PixelsPerLine * PixelSamples, pixel, bufferLength)]
    IN  <<  <<tx(0), tx(3)>>, <<tx(1), tx(1)>>, <<tx(2), tx(2)>> >>

DecodeStandardPixels(syncPulseIndex, bufferLength) ==
    /\ probe.fn = "none"
    /\ probe' = [fn |-> "decodeStandardLine", args |-> <<syncPulseIndex, bufferLength>>,
                 out |-> decodeStandardLine_pixels(syncPulseIndex, bufferLength)]
    /\ UNCHANGED decoderVars
    /\ UNCHANGED <<visWord, visModes, hannWindowCache, hannWindowLRU>>

DecodePDPixels(syncPulseIndex, bufferLength) ==
    /\ probe.fn = "none"
    /\ probe' = [fn |-> "decodePDLinePair", args |-> <<syncPulseIndex, bufferLength>>,
                 out |-> decodePDLinePair(syncPulseIndex, bufferLength)]
    /\ UNCHANGED decoderVars
    /\ UNCHANGED <<visWord, visModes, hannWindowCache, hannWindowLRU>>

NextPixels ==
    \E syncPulseIndex \in 0..MaxSyncIndex : \E bufferLength \in 0..MaxBufferLength :
        \/ DecodeStandardPixels(syncPulseIndex, bufferLength)
        \/ DecodePDPixels(syncPulseIndex, bufferLength)

\* ---------------------------------------------------------------------
\* ImageChannelBuffer on its own: allocate() and reset() calls, then one
\* pixel written and read back.  A plane is modelled one pixel wide: its
\* Uint8Array has an element for the lines 0 .. planeLines - 1.
\* ---------------------------------------------------------------------
\* the calls that can be made: allocate(mode) for a mode, or reset()
BufferCalls == [op : {"allocate"}, mode : ModeIds] \cup [op : {"reset"}, mode : {NoMode}]

RECURSIVE CallSeqs(_)
CallSeqs(n) ==
    IF n = 0 THEN {<<>>}
    ELSE CallSeqs(n - 1) \cup
         {Append(c, x) : c \in {q \in CallSeqs(n - 1) : Len(q) = n - 1}, x \in BufferCalls}

RECURSIVE afterCalls(_, _)
afterCalls(b, calls) ==
    IF calls = <<>> THEN b
    ELSE afterCalls(IF Head(calls).op = "allocate" THEN allocate(b, Head(calls).mode)
                    ELSE resetImageBuffer(b),
                    Tail(calls))

\* the plane of a channel as allocate() or reset() left it
zeroedPlane(b) == [line \in 0..(b.planeLines - 1) |-> 0]

\* a store outside a typed array is ignored
setPixel(b, plane, line, value) ==
    IF b.mode = NoMode THEN plane
    ELSE IF line >= b.allocatedHeight THEN plane
    ELSE IF line \in DOMAIN plane THEN [plane EXCEPT ![line] = value]
    ELSE plane

\* a load outside a typed array gives undefined
getPixel(b, plane, line) ==
    IF b.mode = NoMode THEN [defined |-> TRUE, value |-> 0]
    ELSE IF line >= b.allocatedHeight THEN [defined |-> TRUE, value |-> 0]
    ELSE IF line \in DOMAIN plane THEN [defined |-> TRUE, value |-> plane[line]]
    ELSE [defined |-> FALSE, value |-> 0]

WritePixel(calls, line) ==
    /\ probe.fn = "none"
    /\ LET b == afterCalls(NewImageBuffer, calls)
       IN  probe' = [fn |-> "setPixel", args |-> <<calls, line>>,
                     out |-> [buffer |-> b,
                              pixel |-> getPixel(b, setPixel(b, zeroedPlane(b), line,
                                                             PixelValue), line)]]
    /\ UNCHANGED decoderVars
    /\ UNCHANGED <<visWord, visModes, hannWindowCache, hannWindowLRU>>

NextImageBuffer ==
    \E calls \in CallSeqs(MaxBufferCalls) :
        \E line \in 0..(getMaxLines(afterCalls(NewImageBuffer, calls))) :
            WritePixel(calls, line)

\* ---------------------------------------------------------------------
\* SimpleMovingSum: a binary tree in an array of 2 * length elements, the
\* leaves at length .. 2 * length - 1, the sum of the whole at element 1.
\* The inputs are whole numbers, which the Float32Array holds exactly.
\* ---------------------------------------------------------------------
SimpleMovingSum(length) ==
    [tree |-> [i \in 0..(2 * length - 1) |-> 0], leaf |-> length, length |-> length]

\* the while loop of add(): every parent above child becomes the sum of
\* its two children (child ^ 1 is the sibling of child)
RECURSIVE sumParents(_, _)
sumParents(tree, child) ==
    LET parent == child \div 2
        sibling == IF child % 2 = 0 THEN child + 1 ELSE child - 1
    IN  IF parent > 0
        THEN sumParents([tree EXCEPT ![parent] = tree[child] + tree[sibling]], parent)
        ELSE tree

\* an add() whose leaf starts again at the root of the tree
addWrappingToRoot(s, input) ==
    [s EXCEPT !.tree = sumParents([s.tree EXCEPT ![s.leaf] = input], s.leaf),
              !.leaf = IF s.leaf + 1 >= 2 * s.length THEN 1 ELSE s.leaf + 1]

add(s, input) ==
    [s EXCEPT !.tree = sumParents([s.tree EXCEPT ![s.leaf] = input], s.leaf),
              !.leaf = IF s.leaf + 1 >= 2 * s.length THEN s.length ELSE s.leaf + 1]

sum(s) == s.tree[1]

\* sum() after each of the add() calls, in order
RECURSIVE sumsAfter(_, _)
sumsAfter(s, inputs) ==
    IF inputs = <<>> THEN <<>>
    ELSE <<sum(add(s, Head(inputs)))>> \o sumsAfter(add(s, Head(inputs)), Tail(inputs))

InputValues == {1, 3, 9}

AddInputs(length, inputs) ==
    /\ probe.fn = "none"
    /\ probe' = [fn |-> "SimpleMovingSum", args |-> <<length, inputs>>,
                 out |-> sumsAfter(SimpleMovingSum(length), inputs)]
    /\ UNCHANGED decoderVars
    /\ UNCHANGED <<visWord, visModes, hannWindowCache, hannWindowLRU>>

NextMovingSum ==
    \E length \in 1..MaxWindowLength : \E inputs \in [1..MaxAdds -> InputValues] :
        AddInputs(length, inputs)

\* ---------------------------------------------------------------------
\* The registered modes in full, and the encoder's sample counts.
\* Times are in units of 100 ns (0.004862 s = 48620).

\* the mode object the registry makes for a VIS code
SSTVMode(code) ==
    LET MartinMode(scanTime) ==
            [id |-> code, width |-> 320, height |-> 256, colorFormat |-> "RGB",
             syncPulse |-> 48620, syncPorch |-> 5720, channelCount |-> 3,
             channelOrder |-> <<1, 2, 0>>, hasStartSync |-> FALSE, syncChannel |-> NoMode,
             separatorPulses |-> <<5720, 5720, 5720>>,
             scanTimes |-> <<scanTime, scanTime, scanTime>>,
             lineTime |-> 48620 + 5720 + (scanTime + 5720) * 3,
             channelOffsets |-> <<48620 + 5720,
                                  48620 + 5720 + scanTime + 5720,
                                  48620 + 5720 + scanTime + 5720 + scanTime + 5720>>]
        ScottieMode(scanTime) ==
            [id |-> code, width |-> 320, height |-> 256, colorFormat |-> "RGB",
             syncPulse |-> 90000, syncPorch |-> 15000, channelCount |-> 3,
             channelOrder |-> <<1, 2, 0>>, hasStartSync |-> TRUE, syncChannel |-> 2,
             separatorPulses |-> <<15000, 15000, 0>>,
             scanTimes |-> <<scanTime, scanTime, scanTime>>,
             lineTime |-> 15000 + scanTime + 15000 + scanTime + 90000 + 15000 + scanTime,
             channelOffsets |-> <<90000 + 15000 + scanTime + 15000,
                                  90000 + 15000 + scanTime + 15000 + scanTime + 15000,
                                  90000 + 15000>>]
        PDMode(width, height, scanTime) ==
            [id |-> code, width |-> width, height |-> height, colorFormat |-> "YCrCb",
             syncPulse |-> 200000, syncPorch |-> 20800, channelCount |-> 4,
             channelOrder |-> <<0, 1, 2, 0>>, hasStartSync |-> FALSE, syncChannel |-> NoMode,
             separatorPulses |-> <<0, 0, 0, 0>>,
             scanTimes |-> <<scanTime, scanTime, scanTime, scanTime>>,
             lineTime |-> 200000 + 20800 + scanTime * 4,
             channelOffsets |-> <<200000 + 20800, 200000 + 20800 + scanTime,
                                  200000 + 20800 + scanTime + scanTime,
                                  200000 + 20800 + scanTime + scanTime + scanTime>>]
    IN  CASE code = 44 -> MartinMode(1464320)
          [] code = 40 -> MartinMode(732160)
          [] code = 60 -> ScottieMode(1382400)
          [] code = 56 -> ScottieMode(880640)
          [] code = 76 -> ScottieMode(3456000)
          [] code = 8 ->
            [id |-> 8, width |-> 320, height |-> 240, colorFormat |-> "YCrCb",
             syncPulse |-> 90000, syncPorch |-> 30000, channelCount |-> 2,
             channelOrder |-> <<0, 1>>, hasStartSync |-> FALSE, syncChannel |-> NoMode,
             separatorPulses |-> <<0, 0>>, scanTimes |-> <<880000, 440000>>,
             lineTime |-> 90000 + 30000 + 880000 + 45000 + 15000 + 440000,
             channelOffsets |-> <<90000 + 30000, 90000 + 30000 + 880000 + 45000 + 15000>>]
          [] code = 12 ->
            [id |-> 12, width |-> 320, height |-> 240, colorFormat |-> "YCrCb",
             syncPulse |-> 90000, syncPorch |-> 30000, channelCount |-> 3,
             channelOrder |-> <<0, 1, 2>>, hasStartSync |-> FALSE, syncChannel |-> NoMode,
             separatorPulses |-> <<45000, 45000, 0>>,
             scanTimes |-> <<1380000, 690000, 690000>>,
             lineTime |-> 90000 + 30000 + 1380000 + 45000 + 15000
                             + 690000 + 45000 + 15000 + 690000,
             channelOffsets |-> <<90000 + 30000,
                                  90000 + 30000 + 1380000 + 45000 + 15000,
                                  90000 + 30000 + 1380000 + 45000 + 15000
                                      + 690000 + 45000 + 15000>>]
          [] code = 2 ->
            [id |-> 2, width |-> 160, height |-> 120, colorFormat |-> "Grayscale",
             syncPulse |-> 100000, syncPorch |-> 20000, channelCount |-> 1,
             channelOrder |-> <<0>>, hasStartSync |-> FALSE, syncChannel |-> NoMode,
             separatorPulses |-> <<0>>, scanTimes |-> <<600000>>,
             lineTime |-> 100000 + 20000 + 600000,
             channelOffsets |-> <<100000 + 20000>>]
          [] code = 55 ->
            [id |-> 55, width |-> 320, height |-> 256, colorFormat |-> "RGB",
             syncPulse |-> 55225, syncPorch |-> 5000, channelCount |-> 3,
             channelOrder |-> <<0, 1, 2>>, hasStartSync |-> FALSE, syncChannel |-> NoMode,
             separatorPulses |-> <<0, 0, 0>>,
             scanTimes |-> <<2350000, 2350000, 2350000>>,
             lineTime |-> 55225 + 5000 + 2350000 + 2350000 + 2350000,
             channelOffsets |-> <<55225 + 5000, 55225 + 5000 + 2350000,
                                  55225 + 5000 + 2350000 + 2350000>>]
          [] code = 93 -> PDMode(320, 256, 915200)
          [] code = 99 -> PDMode(320, 256, 1702400)
          [] code = 95 -> PDMode(640, 496, 1216000)
          [] code = 98 -> PDMode(512, 400, 1955840)
          [] code = 96 -> PDMode(640, 496, 1830400)
          [] code = 97 -> PDMode(640, 496, 2444800)
          [] code = 94 -> PDMode(800, 616, 2288000)

\* Math.floor(duration * sampleRate), the product split to stay in range
durationToSamples(duration, rate) ==
    (duration \div 100000) * (rate \div 100)
        + ((duration % 100000) * (rate \div 100)) \div 100000

\* one scan line as written: its length in samples, the offset of each
\* transmitted channel's first pixel tone and of the sync tone, all from
\* the first sample of the line
writeLine(mode, rate) ==
    LET lead == IF mode.syncChannel = NoMode \/ mode.syncChannel = 0
                THEN durationToSamples(mode.syncPulse, rate)
                         + durationToSamples(mode.syncPorch, rate)
                ELSE 0
        separator(ch) ==
            IF mode.id = 8 /\ ch = 1
            THEN durationToSamples(45000, rate) + durationToSamples(15000, rate)
            ELSE IF mode.id = 12 /\ ch > 0
            THEN durationToSamples(45000, rate) + durationToSamples(15000, rate)
            ELSE IF mode.separatorPulses[ch + 1] > 0
            THEN durationToSamples(mode.separatorPulses[ch + 1], rate)
            ELSE 0
        pixels(ch) == durationToSamples(mode.scanTimes[ch + 1], rate)
        midSync(ch) == IF mode.syncChannel = ch + 1
                       THEN durationToSamples(mode.syncPulse, rate)
                                + durationToSamples(mode.syncPorch, rate)
                       ELSE 0
        offsetBefore[ch \in 0..mode.channelCount] ==
            IF ch = 0 THEN lead
            ELSE offsetBefore[ch - 1] + separator(ch - 1) + pixels(ch - 1) + midSync(ch - 1)
    IN  [samples |-> offsetBefore[mode.channelCount],
         starts |-> [ch \in 0..(mode.channelCount - 1) |-> offsetBefore[ch] + separator(ch)],
         sync |-> IF mode.syncChannel = NoMode \/ mode.syncChannel = 0 THEN 0
                  ELSE offsetBefore[mode.syncChannel]
                           - durationToSamples(mode.syncPulse, rate)
                           - durationToSamples(mode.syncPorch, rate)]

\* one PD line pair as written: Y-even, V, U, Y-odd after sync and porch
writePDLinePair(mode, rate) ==
    LET lead == durationToSamples(mode.syncPulse, rate)
                    + durationToSamples(mode.syncPorch, rate)
        offsetBefore[ch \in 0..4] ==
            IF ch = 0 THEN lead
            ELSE offsetBefore[ch - 1] + durationToSamples(mode.scanTimes[ch], rate)
    IN  [samples |-> offsetBefore[4],
         starts |-> [ch \in 0..3 |-> offsetBefore[ch]],
         sync |-> 0]

\* Math.ceil(totalDuration * sampleRate) + 1000, in exact arithmetic:
\* whole samples of the fixed part and of each line, plus the rounded-up
\* sum of their fractions
calculateTotalSamples(mode, addCalibrationHeader, addVoxTones, rate) ==
    LET fixed == (IF addVoxTones THEN 4000000 ELSE 0)
                   + (IF addCalibrationHeader THEN 6400000 + 9 * 300000 ELSE 0)
                   + (IF mode.hasStartSync THEN 90000 ELSE 0)
        lines == IF mode.channelCount = 4 /\ mode.colorFormat = "YCrCb"
                 THEN mode.height \div 2 ELSE mode.height
        fraction(duration) == ((duration % 100000) * (rate \div 100)) % 100000
        rest == fraction(fixed) + lines * fraction(mode.lineTime)
    IN  durationToSamples(fixed, rate) + lines * durationToSamples(mode.lineTime, rate)
            + (rest + 99999) \div 100000 + 1000

\* encode(): the buffer length, the offset after the last write, and the
\* layout of the lines written
encode(mode, addCalibrationHeader, addVoxTones, rate) ==
    LET isPD == mode.channelCount = 4 /\ mode.colorFormat = "YCrCb"
        line == IF isPD THEN writePDLinePair(mode, rate) ELSE writeLine(mode, rate)
        writeVoxTones == 4 * durationToSamples(1000000, rate)
        writeCalibrationHeader ==
            durationToSamples(3000000, rate) + durationToSamples(100000, rate)
                + durationToSamples(3000000, rate) + durationToSamples(300000, rate)
        visBits == 9 * durationToSamples(300000, rate)
        writeImageData ==
            (IF mode.hasStartSync THEN durationToSamples(90000, rate) ELSE 0)
                + (IF isPD THEN mode.height \div 2 ELSE mode.height) * line.samples
    IN  [totalSamples |-> calculateTotalSamples(mode, addCalibrationHeader, addVoxTones, rate),
         offset |-> (IF addVoxTones THEN writeVoxTones ELSE 0)
                       + (IF addCalibrationHeader
                          THEN writeCalibrationHeader + visBits ELSE 0)
                       + writeImageData,
         line |-> line]

Encode(code, addCalibrationHeader, addVoxTones, rate) ==
    /\ probe.fn = "none"
    /\ probe' = [fn |-> "encode",
                 args |-> <<code, addCalibrationHeader, addVoxTones, rate>>,
                 out |-> encode(SSTVMode(code), addCalibrationHeader, addVoxTones, rate)]
    /\ UNCHANGED decoderVars
    /\ UNCHANGED <<visWord, visModes, hannWindowCache, hannWindowLRU>>

\* SSTVDecoder.alignSync on a recording of audioLength samples whose sync is
\* found drift samples after alignStart; ok = FALSE is the null result
alignSync(mode, alignStart, startOfSync, audioLength, drift) ==
    LET syncWindow == RoundDiv(mode.syncPulse * 14 * sampleRate, 100000000)
        alignStop == audioLength - syncWindow
        currentSample == Min(alignStart + drift, alignStop)
        endSync == currentSample + syncWindow \div 2
    IN  IF alignStop <= alignStart THEN [ok |-> FALSE, at |-> 0]
        ELSE IF startOfSync
        THEN [ok |-> TRUE, at |-> endSync - RoundDiv(mode.syncPulse * sampleRate, 10000000)]
        ELSE [ok |-> TRUE, at |-> endSync]

\* SSTVDecoder.decodeImageData from startSample 0, for an image of
\* Height(code) lines: the linesDecoded of the image returned, the
\* warnings emitted, the lines decoded after the first warning, and
\* whether a sync search after line 0 had no audio left (endOfAudio).
\* loop[n] is the state before iteration n of the line (or line pair) loop.
decodeImageData(code, audioLength, drift) ==
    LET mode == SSTVMode(code)
        isPD == mode.channelCount = 4 /\ mode.colorFormat = "YCrCb"
        hasMidSync == mode.syncChannel # NoMode /\ mode.syncChannel > 0
        lineSamples == RoundDiv(mode.lineTime * sampleRate, 10000000)
        startAligned == alignSync(mode, 0, FALSE, audioLength, drift)
        start == IF mode.hasStartSync /\ startAligned.ok THEN startAligned.at ELSE 0
        midStart == IF mode.hasStartSync
                    THEN start - RoundDiv((mode.channelOffsets[mode.syncChannel + 1]
                                              + mode.scanTimes[mode.syncChannel + 1])
                                             * sampleRate, 10000000)
                    ELSE start
        iterations == IF isPD THEN Height(code) \div 2 ELSE Height(code)
        perSync == IF isPD THEN 2 ELSE 1
        loop[n \in 0..iterations] ==
            IF n = 0
            THEN [seqStart |-> IF hasMidSync /\ ~isPD THEN midStart ELSE start,
                  linesDecoded |-> 0, warnings |-> 0, afterWarning |-> 0,
                  endOfAudio |-> FALSE, broken |-> FALSE]
            ELSE LET before == loop[n - 1]
                     line == n - 1
                     moved == IF isPD \/ ~hasMidSync
                              THEN (IF line > 0 THEN before.seqStart + lineSamples
                                    ELSE before.seqStart)
                              ELSE before.seqStart + lineSamples
                     aligned == alignSync(mode, moved, TRUE, audioLength, drift)
                     warn == ~aligned.ok /\ line > 0
                     seqStart == IF aligned.ok THEN aligned.at ELSE moved
                 IN  IF before.broken THEN before
                     ELSE IF warn /\ (isPD \/ ~hasMidSync)
                     THEN [before EXCEPT !.seqStart = moved, !.warnings = @ + 1,
                                         !.endOfAudio = TRUE, !.broken = TRUE]
                     ELSE [seqStart |-> seqStart,
                           linesDecoded |-> perSync * (line + 1),
                           warnings |-> before.warnings + (IF warn THEN 1 ELSE 0),
                           afterWarning |-> before.afterWarning
                               + (IF warn \/ before.warnings > 0 THEN 1 ELSE 0),
                           endOfAudio |-> before.endOfAudio \/ warn,
                           broken |-> FALSE]
    IN  [linesDecoded |-> loop[iterations].linesDecoded,
         warnings |-> loop[iterations].warnings,
         afterWarning |-> loop[iterations].afterWarning,
         endOfAudio |-> loop[iterations].endOfAudio]

DecodeImageData(code, audioLength, drift) ==
    /\ probe.fn = "none"
    /\ probe' = [fn |-> "decodeImageData", args |-> <<code, audioLength, drift>>,
                 out |-> decodeImageData(code, audioLength, drift)]
    /\ UNCHANGED decoderVars
    /\ UNCHANGED <<visWord, visModes, hannWindowCache, hannWindowLRU>>

\* Pixel values and tone frequencies. A frequency is held in units of
\* 1/255 Hz, in which FREQ_BLACK + value * (800 / 255) is a whole number.

\* a mapping that spreads the 800 Hz over 256 steps
pixelToFrequencyOver256(value) == 1500 * 255 + (value * 800 * 255) \div 256

pixelToFrequency(value) == 1500 * 255 + value * 800

\* constants module: Math.round((freq - FREQ_BLACK) * (255 / 800)), clamped
frequencyToPixel(freq) ==
    LET value == RoundDiv(freq - 1500 * 255, 800)
    IN  IF value < 0 THEN 0 ELSE IF value > 255 THEN 255 ELSE value

\* FFTPeakFinder: Math.round((freq - 1500) * 0.31875), clamped;
\* 0.31875 = 51 / 160
FFTPeakFinder_frequencyToPixel(freq) ==
    LET value == RoundDiv((freq - 1500 * 255) * 51, 160 * 255)
    IN  IF value < 0 THEN 0 ELSE IF value > 255 THEN 255 ELSE value

\* the encoder's tone for a pixel value, read back by both decoders
PixelTone(value) ==
    /\ probe.fn = "none"
    /\ probe' = [fn |-> "pixelToFrequency", args |-> <<value>>,
                 out |-> [freq |-> pixelToFrequency(value),
                          pixel |-> frequencyToPixel(pixelToFrequency(value)),
                          fftPixel |-> FFTPeakFinder_frequencyToPixel(pixelToFrequency(value))]]
    /\ UNCHANGED decoderVars
    /\ UNCHANGED <<visWord, visModes, hannWindowCache, hannWindowLRU>>

\* getModeByVIS(code) for a registered code: the mode object is made
GetMode(code) ==
    /\ probe.fn = "none"
    /\ probe' = [fn |-> "getModeByVIS", args |-> <<code>>, out |-> SSTVMode(code)]
    /\ UNCHANGED decoderVars
    /\ UNCHANGED <<visWord, visModes, hannWindowCache, hannWindowLRU>>

\* categorizeModesBySyncPulse over the whole registry: the list a mode is
\* pushed to (0: none); syncPulse is in units of 100 ns
syncPulseBucket(mode) ==
    IF Abs(mode.syncPulse - 50000) < 10000 THEN 5
    ELSE IF Abs(mode.syncPulse - 90000) < 10000 THEN 9
    ELSE IF Abs(mode.syncPulse - 200000) < 20000 THEN 20
    ELSE 0

\* populateSyncHistoryFromVIS: the tracker that is seeded for a mode
syncHistoryRing(mode) ==
    IF Abs(mode.syncPulse - 50000) < 10000 THEN 5
    ELSE IF Abs(mode.syncPulse - 90000) < 10000 THEN 9
    ELSE 20

\* the three places that sort a mode by its sync pulse: the categorization,
\* the ring seeded after a VIS latch, and the width the demodulator reports
\* for a pulse that lasts mode.syncPulse
CategorizeMode(code, rate) ==
    /\ probe.fn = "none"
    /\ probe' = [fn |-> "categorizeModesBySyncPulse", args |-> <<code, rate>>,
                 out |-> [bucket |-> syncPulseBucket(SSTVMode(code)),
                          ring |-> syncHistoryRing(SSTVMode(code)),
                          width |-> syncPulseWidth(
                                        durationToSamples(SSTVMode(code).syncPulse, rate),
                                        rate)]]
    /\ UNCHANGED decoderVars
    /\ UNCHANGED <<visWord, visModes, hannWindowCache, hannWindowLRU>>

NextModes ==
    \/ \E code \in MODE_REGISTRY : GetMode(code)
    \/ \E code \in MODE_REGISTRY : \E rate \in SampleRates : CategorizeMode(code, rate)
    \/ \E code \in MODE_REGISTRY : \E addCalibrationHeader \in BOOLEAN :
       \E addVoxTones \in BOOLEAN : \E rate \in SampleRates :
           Encode(code, addCalibrationHeader, addVoxTones, rate)
    \/ \E code \in {44, 93, 60} : \E audioLength \in 0..MaxAudioLength :
       \E drift \in 0..MaxSyncDrift :
           DecodeImageData(code, audioLength, drift)
    \/ \E value \in 0..255 : PixelTone(value)

\* ---------------------------------------------------------------------
\* The Hann window cache. Windows are asked for in growing sizes, each size
\* possibly asked for again while it is cached.

MAX_HANN_CACHE_SIZE == 20

hannWindow(size) ==
    /\ IF size \notin hannWindowCache
       THEN LET full == Cardinality(hannWindowCache) >= MAX_HANN_CACHE_SIZE
                shifted == full /\ hannWindowLRU # <<>>
                kept == IF shifted THEN hannWindowCache \ {Head(hannWindowLRU)}
                        ELSE hannWindowCache
                lru == IF shifted THEN Tail(hannWindowLRU) ELSE hannWindowLRU
            IN  /\ hannWindowCache' = kept \cup {size}
                /\ hannWindowLRU' = Append(lru, size)
       ELSE LET at == {i \in 1..Len(hannWindowLRU) : hannWindowLRU[i] = size}
                idx == IF at = {} THEN 0 ELSE CHOOSE i \in at : \A j \in at : i <= j
            IN  /\ hannWindowCache' = hannWindowCache
                /\ hannWindowLRU' =
                       IF idx = 0 THEN hannWindowLRU
                       ELSE Append(SubSeq(hannWindowLRU, 1, idx - 1)
                                       \o SubSeq(hannWindowLRU, idx + 1, Len(hannWindowLRU)),
                                   size)
    /\ UNCHANGED decoderVars
    /\ UNCHANGED <<visWord, visModes, probe>>

clearHannWindowCache ==
    /\ hannWindowCache' = {}
    /\ UNCHANGED hannWindowLRU
    /\ UNCHANGED decoderVars
    /\ UNCHANGED <<visWord, visModes, probe>>

NextHann ==
    \/ \E size \in 1..MaxHannSize :
           /\ LET last == IF hannWindowLRU = <<>> THEN 0
                          ELSE hannWindowLRU[Len(hannWindowLRU)]
              IN  size = last + 1 \/ (size = last /\ size \in hannWindowCache)
           /\ hannWindow(size)
    \/ clearHannWindowCache

\* one VIS word given to each of the three decode paths
TryDecodeWord(word) ==
    /\ visWord' = word
    /\ visModes' = [raw |-> tryDecodeBits(word),
                    demodulated |-> tryDecodeFromDemodulatedBits(word),
                    batch |-> tryDecodeVIS(word), decoded |-> TRUE]
    /\ UNCHANGED decoderVars
    /\ UNCHANGED <<probe, hannWindowCache, hannWindowLRU>>

NextVIS == \E word \in 0..255 : TryDecodeWord(word)

Next ==
    \/ \E pulse \in Pulses(ChunkLen) : \E cancelOn \in ObserverCancelsOn :
           Process(ChunkLen, pulse, cancelOn)
    \/ \E cancelOn \in ObserverCancelsOn : Flush(cancelOn)
    \/ Cancel
    \/ Reset

\* process(samples) on a chunk that is one scan line of the forced mode, up
\* to 2 samples longer than nominal, and starts with the line's sync pulse
ProcessLine(n) ==
    /\ totalSamples + n <= MaxDriftLines * (LineSamples(forcedMode) + 2)
    /\ afterProcess(process(Self("none"), n, [width |-> 9, offset |-> 0, vis |-> NoMode]), n)
    /\ chunkPulses' = <<>>

NextDrift ==
    \E n \in LineSamples(forcedMode)..(LineSamples(forcedMode) + 2) : ProcessLine(n)

\* the decoder fed with chunks of audio that hold up to two sync pulses
NextChunk ==
    \/ \E pulses \in ChunkPulses : \E cancelOn \in ObserverCancelsOn :
           ProcessChunk(ChunkLen, pulses, cancelOn)
    \/ \E cancelOn \in ObserverCancelsOn : Flush(cancelOn)
    \/ Cancel
    \/ Reset

\* ---------------------------------------------------------------------
\* One sample stream given to two decoders in different chunks.  A stream
\* is StreamLength samples and the sync pulses its audio holds, in order:
\* [at, width, vis], at being the sample at which the demodulator's trigger
\* releases the pulse.
\* ---------------------------------------------------------------------
StreamPulse ==
    [at : 0..(StreamLength - 1), width : Widths, vis : {NoMode}] \cup
    [at : 0..(StreamLength - 1), width : {9}, vis : {12}]

Streams ==
    {<<>>} \cup {<<p>> : p \in StreamPulse}
           \cup {s \in {<<p, q>> : p \in StreamPulse, q \in StreamPulse} : s[1].at < s[2].at}

\* Demodulator.process over the samples from..(to - 1) of the stream: the
\* last pulse released there, its offset counted from the start of the chunk
chunkResult(stream, from, to) ==
    LET inside == SelectSeq(stream, LAMBDA p : p.at >= from /\ p.at < to)
    IN  demodulatorProcess([i \in 1..Len(inside) |->
            [width |-> inside[i].width, offset |-> inside[i].at - from,
             vis |-> inside[i].vis]])

\* process() called for every chunk of the stream, the chunks being cut at ends
RECURSIVE processChunks(_, _, _, _)
processChunks(d, stream, from, ends) ==
    IF ends = <<>> THEN d
    ELSE processChunks(process(d, Head(ends) - from, chunkResult(stream, from, Head(ends))),
                       stream, Head(ends), Tail(ends))

\* what an observer of modeDetected and line events sees of the stream, and
\* the lines of the image the final flush() returns (0: null)
decodeStream(stream, ends) ==
    LET d == processChunks(constructed(forcedMode), stream, 0, ends)
        e == flush(d)
        seen == SelectSeq(e.events, LAMBDA ev : ev.type \in {"modeDetected", "line"})
    IN  [events |-> [i \in 1..Len(seen) |->
                        [type |-> seen[i].type, mode |-> seen[i].mode, line |-> seen[i].line]],
         image |-> flushReturns(d, e)]

\* the stream given whole, and given in two chunks cut at sample cut
DecodeStream(stream, cut) ==
    /\ probe.fn = "none"
    /\ probe' = [fn |-> "decodeStream", args |-> <<stream, cut>>,
                 out |-> [whole |-> decodeStream(stream, <<StreamLength>>),
                          split |-> decodeStream(stream, <<cut, StreamLength>>)]]
    /\ UNCHANGED decoderVars
    /\ UNCHANGED <<visWord, visModes, hannWindowCache, hannWindowLRU>>

NextStream ==
    /\ probe.fn = "none"
    /\ \E stream \in Streams : \E cut \in 1..(StreamLength - 1) : DecodeStream(stream, cut)

\* process(samples) while an observer calls reset() from its callback for
\* every event of type resetOn (totalSamples goes on counting the samples
\* given since the caller's own reset())
ObserverResetsOn ==
    IF forcedMode = NoMode THEN {"modeDetected", "line"}
    ELSE {"line"}   \* reset() emits modeDetected for a forced mode: an observer
                    \* that answers it with reset() never returns

ProcessResetting(n, pulse, resetOn) ==
    /\ totalSamples + n <= MaxSamples
    /\ afterProcess(process([Self("none") EXCEPT !.resetOn = resetOn], n, pulse), n)
    /\ chunkPulses' = <<>>

\* the chunk lengths that are one scan line of a registered mode
LineChunks == {LineSamples(m) : m \in ModeIds}

\* what the demodulator reports for a chunk that starts with a sync pulse
\* (a 9 ms pulse may be the break of a VIS header of Robot 72), or holds none
LinePulses ==
    {NoSync} \cup [width : {5, 20}, offset : {0}, vis : {NoMode}]
             \cup [width : {9}, offset : {0}, vis : {NoMode, 12}]

\* the decoder fed line by line: every chunk is one scan line long
NextTiming ==
    \/ \E n \in LineChunks : \E pulse \in LinePulses : \E cancelOn \in ObserverCancelsOn :
           totalSamples + n <= MaxLineFed /\ Process(n, pulse, cancelOn)
    \/ \E cancelOn \in ObserverCancelsOn : Flush(cancelOn)
    \/ Cancel
    \/ Reset

\* the decoder fed sample by sample, with or without a 9 ms pulse (noise
\* at the sync frequency) in each
NextBurst ==
    \E pulse \in {NoSync, [width |-> 9, offset |-> 0, vis |-> NoMode]} :
        totalSamples + 1 <= MaxPulseFed /\ Process(1, pulse, "none")

\* the decoder fed line by line, with an observer that may call reset()
NextObserverReset ==
    \/ \E n \in LineChunks : \E pulse \in LinePulses : \E resetOn \in ObserverResetsOn :
           totalSamples + n <= MaxLineFed /\ ProcessResetting(n, pulse, resetOn)
    \/ \E n \in LineChunks : \E pulse \in LinePulses :
           totalSamples + n <= MaxLineFed /\ Process(n, pulse, "none")
    \/ Reset

Spec == Init /\ [][Next]_vars

SpecChunk == Init /\ [][NextChunk]_vars

SpecInterrupt == InitInterrupt /\ [][Next]_vars

SpecForced == InitForced /\ [][Next]_vars

SpecFineLines == InitFineLines /\ [][Next]_vars

SpecDrift == InitDrift /\ [][NextDrift]_vars

SpecVIS == Init /\ [][NextVIS]_vars

SpecSync == Init /\ [][NextSync]_vars

SpecChroma == Init /\ [][NextChroma]_vars

SpecPixels == Init /\ [][NextPixels]_vars

SpecModes == Init /\ [][NextModes]_vars

SpecHann == Init /\ [][NextHann]_vars

SpecEither == InitEither /\ [][Next]_vars

SpecStream == Init /\ [][NextStream]_vars

SpecObserverReset == InitEither /\ [][NextObserverReset]_vars

SpecBurst == InitEither /\ [][NextBurst]_vars

SpecImageBuffer == Init /\ [][NextImageBuffer]_vars

SpecMovingSum == Init /\ [][NextMovingSum]_vars

SpecTiming == Init /\ [][NextTiming]_vars

SpecTimingInterrupt == InitInterrupt /\ [][NextTiming]_vars

SpecInvalidForced == InitInvalidForced /\ [][Next]_vars

SpecSmallBuffer == InitSmallBuffer /\ [][Next]_vars

SpecTinyBuffer == InitTinyBuffer /\ [][Next]_vars

\* ---------------------------------------------------------------------
\* Properties
\* ---------------------------------------------------------------------
\* C1: from cancel() until reset() the decoder stays cancelled, and a
\* process() call on a cancelled decoder returns false, emits no event and
\* leaves getState(), getMode(), getLinesDecoded() and getBufferedSeconds()
\* as they were
C1_CancelledProcessIsInert ==
    [][/\ lastCall'.op = "cancel" => cancelled'
       /\ (cancelled /\ lastCall'.op # "reset") => cancelled'
       /\ (cancelled /\ lastCall'.op = "process") =>
              /\ lastCall'.returned = "false"
              /\ events' = <<>>
              /\ state' = state
              /\ currentMode' = currentMode
              /\ imageBuffer'.linesDecoded = imageBuffer.linesDecoded
              /\ bufferWritePos' = bufferWritePos]_vars

\* C1 witness: process() was called on a cancelled decoder that has a mode
\* latched and samples buffered
C1_Witness ==
    /\ cancelled
    /\ lastCall.op = "process"
    /\ lastCall.returned = "false"
    /\ lastCall.modeBefore # NoMode
    /\ events = <<>>
    /\ bufferWritePos > 0

\* C2 as stated: once cancel() has been called, getState() is Cancelled at
\* every later observation point until reset()
C2_CancelledIsTerminal == cancelled => state = "cancelled"

\* C3 as stated: after process() calls totalling S samples bufferWritePos is
\* at most min(S, maxBufferSamples) and no sample was written outside the
\* sample buffer
C3_BufferBounded ==
    /\ bufferWritePos <= Min(totalSamples, maxBufferSamples)
    /\ ~oobWrite

\* C4 as stated: a buffer shift of amount k subtracts k from every stored
\* sample index: lastSyncPulseIndex, leaderBreakIndex, the pulse indices of
\* the three sync-history rings, every retained VIS candidate index, and the
\* sync positions recorded for slant tracking
C4_ShiftMovesEveryIndex ==
    lastShift.amount > 0 =>
        LET b == lastShift.before
            a == lastShift.after
            k == lastShift.amount
        IN  /\ a.lastSyncPulseIndex = b.lastSyncPulseIndex - k
            /\ a.leaderBreakIndex = b.leaderBreakIndex - k
            /\ \A w \in Widths : \A i \in 1..SyncPulseCount :
                   a.syncPulses[w][i] = b.syncPulses[w][i] - k
            /\ \A i \in 1..Len(a.visCandidates) :
                   \E j \in 1..Len(b.visCandidates) :
                       a.visCandidates[i] = b.visCandidates[j] - k
            /\ Len(a.syncPositions) = Len(b.syncPositions)
            /\ \A i \in 1..Len(a.syncPositions) :
                   a.syncPositions[i] = b.syncPositions[i] - k

\* C5 as stated, for the entries that held a position inside the buffer
\* before the shift: after a buffer shift no sync-history ring entry, no VIS
\* candidate and no lastSyncPulseIndex is retained with a negative index
C5_NoNegativeIndexAfterShift ==
    lastShift.amount > 0 =>
        LET b == lastShift.before
            a == lastShift.after
        IN  /\ b.lastSyncPulseIndex > 0 => a.lastSyncPulseIndex >= 0
            /\ \A w \in Widths : \A i \in 1..SyncPulseCount :
                   b.syncPulses[w][i] > 0 => a.syncPulses[w][i] >= 0
            /\ \A i \in 1..Len(a.visCandidates) : a.visCandidates[i] >= 0

\* C6 as stated: when a VIS header is accepted while an image is in progress
\* (a mode latched, at least one line decoded), imageComplete is emitted
\* after the image's last line event and before the modeDetected event of
\* the new mode (for a decoder that no observer has cancelled)
C6_VisInterruptEmitsImage ==
    (~cancelled /\ lastCall.op = "process" /\ lastCall.modeBefore # NoMode) =>
        \A j \in 1..Len(events) :
            (/\ events[j].type = "modeDetected"
             /\ \/ lastCall.linesBefore > 0
                \/ \E i \in 1..(j - 1) : events[i].type = "line")
            => \E k \in 1..(j - 1) :
                   /\ events[k].type = "imageComplete"
                   /\ \A i \in 1..(j - 1) : events[i].type = "line" => i < k

\* C7 as stated: with default options a valid VIS header that arrives while
\* a mode is latched is still detected: when process() returns, no header
\* that can be read in the buffered samples is left undetected among the
\* candidates
C7_SecondVisDetected ==
    (lastCall.op = "process" /\ lastCall.returned = "true" /\ currentMode # NoMode) =>
        \A i \in 1..Len(visCandidates) :
            ~(/\ bufferWritePos >= visCandidates[i].index + getRequiredSamples
              /\ tryDecode(bufferWritePos, visCandidates[i]) # NoMode)

\* C8 as stated: the observers receive the modeDetected event of an image
\* before its first line event, and the line events of one image carry the
\* indices 0, 1, 2, ... (for a decoder that has not been cancelled)
C8_ModeDetectedBeforeLines ==
    ~cancelled =>
        /\ \A i \in 1..Len(imageLog) :
               imageLog[i].type = "line" =>
                   \E j \in 1..(i - 1) :
                       /\ imageLog[j].type = "modeDetected"
                       /\ imageLog[j].mode = imageLog[i].mode
        /\ LET lines == SelectSeq(imageLog, LAMBDA ev : ev.type = "line")
           IN  \A k \in 1..Len(lines) : lines[k].line = k - 1

\* C9 as stated: whenever flush() yields a non-null image, an imageComplete
\* event carrying that image has been emitted (for a decoder that has not been
\* cancelled)
C9_FlushEmitsImageComplete ==
    (~cancelled /\ lastCall.op = "flush" /\ lastCall.returned = "image") =>
        \E i \in 1..Len(events) :
            events[i].type = "imageComplete" /\ events[i].line = lastCall.lines

\* C10 as stated: after an image has been completed, by flush() or by a new
\* VIS header, imageCompleted is set and no further line event is emitted
\* for that image (for a decoder that has not been cancelled)
C10_CompletedImageIsClosed ==
    ~cancelled =>
        /\ (lastCall.op = "flush" /\ lastCall.returned = "image") => imageCompleted
        /\ \A i \in 1..Len(imageLog) :
               imageLog[i].type \in {"flushed", "imageComplete"} =>
                   \A j \in (i + 1)..Len(imageLog) : imageLog[j].type # "line"

C12_InvalidForcedModeFails ==
    /\ \A code \in {UnregisteredCode} : SSTVEncoder(code) = "Error"
    /\ (forcedMode # NoMode /\ getModeByVIS(forcedMode) = NoMode) =>
           /\ ~(lastCall.op = "process" /\ lastCall.returned = "true")
           /\ currentMode = NoMode

\* C13 as stated: while a mode is latched, a decoded VIS header replaces it
\* only if less than 10% of the image has been decoded (linesDecoded /
\* mode.height < 0.1) or the sync pulses of the two modes are within 5 ms of
\* each other; otherwise the latched mode and its lines are left as they are
C13_VisReplacesOnlyEarlyOrSameSync ==
    (lastCall.op = "process" /\ lastCall.modeBefore # NoMode /\ ~cancelled) =>
        LET old == lastCall.modeBefore
            latches == {i \in 1..Len(events) : events[i].type = "modeDetected"}
            linesAt(i) == lastCall.linesBefore
                          + Cardinality({j \in 1..(i - 1) : events[j].type = "line"})
        IN  /\ \A i \in latches :
                   \/ linesAt(i) * lineScale * 10 < ModeTable[old].height
                   \/ Abs(ModeTable[old].syncUs - ModeTable[events[i].mode].syncUs) <= 5000
            /\ latches = {} =>
                   /\ currentMode = old
                   /\ imageBuffer.linesDecoded >= lastCall.linesBefore

\* C14 as stated: every VIS decode path takes bit 8 as even parity over the
\* 7 data bits: with good parity it returns the mode of the data bits, and
\* with bad parity it returns a mode only if flipping one data bit gives a
\* registered code (and then such a code); otherwise it rejects the word
C14_EveryPathChecksParity ==
    visModes.decoded =>
        LET data == visWord % 128
            parityFails == Ones(visWord, 8) % 2 = 1
            flips == {FlipBit(data, i) : i \in 0..6} \cap MODE_REGISTRY
        IN  \A path \in {"raw", "demodulated", "batch"} :
                IF parityFails
                THEN visModes[path] \in flips \cup {NoMode}
                ELSE visModes[path] = lookupVIS(data)

\* C15 as stated: for every registered mode M and every corruption of exactly
\* one bit of M's 8-bit VIS word (a data bit or the parity bit), VIS decoding
\* with parity correction returns M itself
C15_SingleBitErrorRestoresMode ==
    visModes.decoded =>
        \A m \in MODE_REGISTRY : \A b \in 0..7 :
            visWord = FlipBit(writeVISCode(m), b) =>
                visModes.raw = m /\ visModes.demodulated = m

\* C16 as stated: every valid sync pulse contained in a chunk is reported and
\* the controller updates the matching sync-history ring once per pulse, so
\* that after process() the ring of each pulse's width holds that pulse's
\* index (no VIS latch in the call having rewritten the rings)
C16_EveryPulseOfAChunkIsTracked ==
    (/\ lastCall.op = "process" /\ lastCall.returned = "true"
     /\ \A e \in 1..Len(events) : events[e].type # "modeDetected") =>
        \A k \in 1..Len(chunkPulses) :
            \E i \in 1..SyncPulseCount :
                sync[chunkPulses[k].width].syncPulses[i]
                    = bufferWritePos - ChunkLen + chunkPulses[k].offset

C18_LineLengthStaysNearNominal ==
    currentMode # NoMode =>
        Abs(currentScanLineSamples - LineSamples(currentMode)) <= scanLineToleranceSamples

\* C19: reaching mode.height never completes the image: decoding goes on
\* into the slack lines with no imageComplete event and no change of state,
\* and linesDecoded never exceeds mode.height + 128 (here both divided by
\* lineScale), for standard modes and for PD modes (two lines per sync)
C19_DecodesIntoSlackAndNoFurther ==
    currentMode # NoMode =>
        /\ imageBuffer.linesDecoded <= Height(currentMode) + ExtraLines \div lineScale
        /\ ~imageCompleted
        /\ \A e \in 1..Len(events) : events[e].type # "imageComplete"
        /\ \A e \in 1..Len(imageLog) : imageLog[e].type # "imageComplete"
        /\ ~cancelled => state = "decoding-image"

C19_Witness ==
    /\ currentMode # NoMode /\ isPDMode(currentMode)
    /\ lastCall.op = "process" /\ ~cancelled
    /\ lastCall.linesBefore < Height(currentMode)
    /\ imageBuffer.linesDecoded = Height(currentMode) + ExtraLines \div lineScale
    /\ \E e \in 1..Len(events) :
           events[e].type = "line" /\ events[e].line >= Height(currentMode)
    /\ state = "decoding-image"

\* C20: for a 2-channel YCrCb image every RGB conversion of a line, the
\* per-line one and the full-image one, uses the V of the even line of the
\* line pair and the U of its odd line (128 when the odd line is missing),
\* V and U being what the encoder put on those lines
C20_ChromaFromLinePair ==
    probe.fn \in {"convertLineToRGB", "imageDataToRGB"} =>
        LET line == probe.args[1]
            y == probe.args[2]
            source == probe.args[3]
            evenLine == line - (line % 2)
            v == source[evenLine + 1].v
            u == IF evenLine + 1 < Len(source) THEN source[evenLine + 2].u ELSE 128
        IN  probe.out = yuvToRgb(y, u, v)

\* C21: a pixel whose analysis window [windowStart, windowStart + pixelWindow)
\* is not entirely inside the buffer [0, bufferLength) is skipped and keeps
\* its default 0, while every other pixel of every channel of the line is
\* written
C21_PartialWindowPixelSkipped ==
    probe.fn \in {"decodeStandardLine", "decodePDLinePair"} =>
        LET syncPulseIndex == probe.args[1]
            bufferLength == probe.args[2]
            inside(ch, pixel) ==
                LET windowStart == syncPulseIndex + ch * PixelsPerLine * PixelSamples
                                      + pixel * PixelSamples - HalfWindowSamples
                IN  windowStart >= 0 /\ windowStart + 2 * HalfWindowSamples <= bufferLength
            stored(ch, pixel) ==
                IF probe.fn = "decodeStandardLine" THEN probe.out[ch][pixel]
                ELSE IF ch = 0 THEN probe.out[1][1][pixel]
                ELSE IF ch = 3 THEN probe.out[1][2][pixel]
                ELSE probe.out[ch + 1][1][pixel]
            channels == IF probe.fn = "decodeStandardLine" THEN 0..2 ELSE 0..3
        IN  \A ch \in channels : \A pixel \in 0..(PixelsPerLine - 1) :
                IF inside(ch, pixel) THEN stored(ch, pixel) = 2 * HalfWindowSamples
                ELSE stored(ch, pixel) = 0

\* C24: for every mode of the registry, at R = 48000, lineTime * R equals
\* (syncPulse + syncPorch + the sum over the channels of scanTimes[c] +
\* separatorPulses[c]) * R to within 1 sample
C24_LineTimeIsSumOfParts ==
    probe.fn = "getModeByVIS" =>
        LET mode == probe.out
            SumOver[c \in 0..mode.channelCount] ==
                IF c = 0 THEN 0
                ELSE SumOver[c - 1] + mode.scanTimes[c] + mode.separatorPulses[c]
            parts == mode.syncPulse + mode.syncPorch + SumOver[mode.channelCount]
        IN  Abs(mode.lineTime - parts) * (48000 \div 100) <= 100000

\* C25: for every registered mode, channelOrder has length channelCount and
\* each logical channel index 0 .. channelCount - 1 appears in it exactly once
C25_ChannelOrderIsPermutation ==
    probe.fn = "getModeByVIS" =>
        LET mode == probe.out
        IN  /\ Len(mode.channelOrder) = mode.channelCount
            /\ \A c \in 0..(mode.channelCount - 1) :
                   Cardinality({i \in 1..mode.channelCount : mode.channelOrder[i] = c}) = 1

\* C22: for every registered mode and every combination of
\* addCalibrationHeader and addVoxTones, the samples encode() writes never
\* exceed the pre-computed buffer length, so nothing is written out of
\* bounds and nothing is cut from the returned audio
C22_EncodeStaysInsideBuffer ==
    probe.fn = "encode" => probe.out.offset <= probe.out.totalSamples

\* C23: for every registered mode the encoder starts the pixel tones of
\* each transmitted channel at the offset from the reference sync edge that
\* the decoder assumes, floor(getChannelOffset * R), up to one sample per
\* tone of the line, and consecutive syncs are lineTime * R samples apart
C23_EncoderLayoutMatchesDecoder ==
    probe.fn = "encode" =>
        LET mode == SSTVMode(probe.args[1])
            rate == probe.args[4]
            line == probe.out.line
            tones == 3 * mode.channelCount + 2
            fromSync(ch) == IF line.starts[ch] >= line.sync
                            THEN line.starts[ch] - line.sync
                            ELSE line.starts[ch] + line.samples - line.sync
        IN  /\ Abs(line.samples - durationToSamples(mode.lineTime, rate)) <= tones
            /\ \A ch \in 0..(mode.channelCount - 1) :
                   Abs(fromSync(ch) - durationToSamples(mode.channelOffsets[ch + 1], rate))
                       <= tones

\* C26: in batch decoding, when the recording ends before all lines are
\* decoded, the decoder emits a warning, decodes no further line, and the
\* image it returns has linesDecoded < mode.height, for line-start-synced,
\* PD and mid-line-sync modes alike
C26_ShortAudioStopsDecoding ==
    (probe.fn = "decodeImageData" /\ probe.out.endOfAudio) =>
            /\ probe.out.warnings >= 1
            /\ probe.out.afterWarning = 0
            /\ probe.out.linesDecoded < Height(probe.args[1])

\* C27: after any sequence of hannWindow(size) and clearHannWindowCache()
\* calls the cache holds at most MAX_HANN_CACHE_SIZE (20) windows
C27_HannCacheBounded ==
    Cardinality(hannWindowCache) <= MAX_HANN_CACHE_SIZE

\* C28: for every integer pixel value v in 0..255,
\* frequencyToPixel(pixelToFrequency(v)) = v, with the frequencyToPixel of
\* the constants module and with FFTPeakFinder.frequencyToPixel
C28_PixelFrequencyRoundTrip ==
    probe.fn = "pixelToFrequency" =>
        /\ probe.out.pixel = probe.args[1]
        /\ probe.out.fftPixel = probe.args[1]

C28_Witness ==
    /\ probe.fn = "pixelToFrequency"
    /\ probe.args[1] = 255
    /\ probe.out.freq = 2300 * 255
    /\ probe.out.pixel = 255 /\ probe.out.fftPixel = 255

\* C29: flush() on a decoder with no mode latched returns null, emits no
\* event and decodes nothing, however many samples were processed; so does
\* flush() on a forced-mode decoder that has received no samples
C29_FlushWithoutSignalReturnsNull ==
    (/\ lastCall.op = "flush"
     /\ \/ lastCall.modeBefore = NoMode
        \/ forcedMode # NoMode /\ totalSamples = 0) =>
        /\ lastCall.returned = "null"
        /\ events = <<>>
        /\ imageBuffer.linesDecoded = lastCall.linesBefore
        /\ currentMode = lastCall.modeBefore

C29_Witness ==
    /\ lastCall.op = "flush"
    /\ lastCall.modeBefore = NoMode
    /\ totalSamples = MaxSamples
    /\ ~cancelled
    /\ lastCall.returned = "null"
    /\ events = <<>>

\* C30: when an observer calls cancel() during a line event of a process()
\* call, the call emits no line event for any later line (the odd line of a
\* PD pair counts as the emission in progress) and no later modeDetected,
\* and returns false
C30_NoLinesAfterObserverCancel ==
    lastCall.op = "process" =>
        \A i \in 1..Len(events) : \A j \in 1..Len(events) :
            (/\ i > 1 /\ i < j
             /\ events[i].type = "stateChange" /\ events[i].what = "cancelled"
             /\ events[i - 1].type = "line") =>
                /\ lastCall.returned = "false"
                /\ events[j].type # "modeDetected"
                /\ events[j].type = "line" =>
                       /\ isPDMode(events[j].mode)
                       /\ events[j].line = events[i - 1].line + 1
                       /\ events[i - 1].line % 2 = 0

C32_NoCandidateSurvivesALatch ==
    (/\ lastCall.op = "process"
     /\ \E i \in 1..Len(events) : events[i].type = "modeDetected")
        => visCandidates = <<>>

\* C33: while process() alone decodes an image (no flush() has decoded lines
\* of it), no two decodeLineAt calls, by sync pulse or by timing, decode a
\* line from the same sync position of the stream
C33_LineIntervalDecodedOnce ==
    (\A k \in 1..Len(imageLog) : imageLog[k].type # "flushed")
        => \A i \in 1..Len(lineStarts) : \A j \in 1..Len(lineStarts) :
               i < j => lineStarts[i] # lineStarts[j]

\* C34: a stream given to process() whole and the same stream given in two
\* chunks produce the same modeDetected and line events (mode, line index,
\* count, order) and the same image from the final flush()
C34_ChunkingIndependent ==
    probe.fn = "decodeStream" => probe.out.whole = probe.out.split

\* C35: when an observer has called reset() from inside a callback of a
\* process() call, then once the call has returned the decoder holds what a
\* freshly reset one holds: no mode or the forced mode, lastSyncPulseIndex 0,
\* currentScanLineSamples 0 or the forced mode's line length, no VIS
\* candidate, no decoded line, an empty buffer
C35_ObserverResetLeavesFreshState ==
    (/\ lastCall.op = "process"
     /\ \E i \in 1..Len(events) : events[i].type = "reset")
        => LET fresh == constructed(forcedMode)
           IN  /\ currentMode = fresh.currentMode
               /\ lastSyncPulseIndex = fresh.lastSyncPulseIndex
               /\ currentScanLineSamples = fresh.currentScanLineSamples
               /\ visCandidates = fresh.visCandidates
               /\ imageBuffer.linesDecoded = fresh.imageBuffer.linesDecoded
               /\ bufferWritePos = fresh.bufferWritePos

\* C36: every registered mode is in exactly one of the three sync-width
\* lists, and that list, the ring seeded after a VIS latch and the width the
\* demodulator reports for a pulse of the mode's sync duration are the same
C36_SyncBucketsAgree ==
    probe.fn = "categorizeModesBySyncPulse" =>
        /\ probe.out.bucket \in Widths
        /\ probe.out.ring = probe.out.bucket
        /\ probe.out.width = probe.out.bucket

\* C37: at the end of every call the VIS candidate queue holds at most 10
\* entries, whatever the mode and the options
C37_CandidateQueueBounded ==
    Len(visCandidates) <= MaxVisCandidates

\* C38: after any sequence of allocate(mode) and reset() calls that leaves a
\* mode in the buffer, every plane holds getMaxLines() lines, a pixel set on
\* a line below getMaxLines() is read back, and after reset() linesDecoded
\* is 0
C38_PlanesHoldMaxLines ==
    (probe.fn = "setPixel" /\ probe.out.buffer.mode # NoMode) =>
        /\ probe.out.buffer.planeLines = getMaxLines(probe.out.buffer)
        /\ probe.args[2] < getMaxLines(probe.out.buffer) =>
               probe.out.pixel = [defined |-> TRUE, value |-> PixelValue]
        /\ probe.out.buffer.linesDecoded = 0

\* C39: a ring has valid data only when all four of its intervals are
\* differences of two sync pulses that were reported or seeded from a VIS
\* header, that is when its five sync pulse entries all are such pulses
C39_ValidDataIsObservedData ==
    \A w \in Widths : hasValidData(sync[w]) => sync[w].observed = SyncPulseCount

\* C40: for every window length and every input sequence, sum() after the
\* k-th add() is the sum of the last length inputs of the first k (fewer
\* when fewer were added)
C40_MovingSumIsSumOfLastInputs ==
    probe.fn = "SimpleMovingSum" =>
        LET length == probe.args[1]
            inputs == probe.args[2]
        IN  \A k \in 1..Len(inputs) :
                probe.out[k] = SeqSum(SubSeq(inputs, IF k > length THEN k - length + 1 ELSE 1, k))

\* a window whose length is no power of two has dropped its oldest inputs
C40_Witness ==
    /\ probe.fn = "SimpleMovingSum"
    /\ probe.args[1] = 3
    /\ Len(probe.args[2]) > 3
    /\ probe.out[Len(probe.args[2])] < SeqSum(probe.args[2])
    /\ probe.out[Len(probe.args[2])] > 0

====
